---- MODULE Spec2Model ----
(***************************************************************************)
(* A model of the EchoVault command handlers (list, string, sorted set and *)
(* hash modules) running as concurrent clients of the keyspace.  Every     *)
(* call a handler makes on the server interface (KeyExists, KeyLock,       *)
(* KeyRLock, CreateKeyAndLock, GetValue, SetValue, KeyUnlock, KeyRUnlock)  *)
(* is one atomic step of the client that runs the handler; the steps of    *)
(* different clients interleave freely.                                    *)
(***************************************************************************)
EXTENDS Integers, Sequences, FiniteSets, TLC

\* ---------------------------------------------------------------- bounds
MaxCmds == 2       \* commands a client runs one after the other
MaxZCmds == 3      \* the same, for the sequences of sorted-set commands

\* ------------------------------------------------------------- universes
Procs == {1, 2}    \* client connections, each running one handler at a time
NoProc == 0        \* "no holder" of a write lock
Keys == {"a", "b"}
Elems == {"x", "y"}   \* list elements (non-numeric tokens: AdaptType keeps them)

VARIABLES
  store,      \* key -> stored value (Absent when the key does not exist)
  wlock,      \* key -> the client holding the key's write lock, or NoProc
  rlock,      \* key -> client -> number of read locks the client holds
  pc,         \* client -> position in its handler
  cmd,        \* client -> the command array it is running
  loc,        \* client -> the handler's local variables
  reply,      \* client -> what the handler returned
  cancelled,  \* client -> the command's context is cancelled
  trace,      \* client -> what the running command has done so far (history)
  served      \* client -> number of commands handed to it so far

vars == <<store, wlock, rlock, pc, cmd, loc, reply, cancelled, trace, served>>

\* ---------------------------------------------------------------- values
\* One record shape for every kind of stored value.
\* seq: the elements of a list or the characters of a string; set: the
\* member records of a sorted set; hash: the entries of a hash.
Value(kind, seq, set, hash) == [kind |-> kind, seq |-> seq, set |-> set, hash |-> hash]
Absent == Value("absent", <<>>, {}, {})       \* no entry at the key
NilValue == Value("nil", <<>>, {}, {})        \* the entry CreateKeyAndLock inserts
ListValue(l) == Value("list", l, {}, {})      \* []interface{}
StringValue(s) == Value("string", s, {}, {})  \* string, as its sequence of characters
SortedSetValue(S) == Value("zset", <<>>, S, {})   \* *sorted_set.SortedSet
\* The variant in which an emptied hash leaves the keyspace.
HashValue_emptyDropped(h) == IF h = {} THEN Absent ELSE Value("hash", <<>>, {}, h)
HashValue(h) == Value("hash", <<>>, {}, h)        \* map[string]interface{}

\* ---------------------------------------------------------------- replies
NoReply == [kind |-> "none", n |-> 0, v |-> <<>>]
Ok == [kind |-> "ok", n |-> 0, v |-> <<>>]
Err(msg) == [kind |-> "err", n |-> 0, v |-> <<msg>>]
IntReply(n) == [kind |-> "int", n |-> n, v |-> <<>>]
StrReply(s) == [kind |-> "str", n |-> 0, v |-> <<s>>]
ArrayReply(a) == [kind |-> "array", n |-> Len(a), v |-> a]
Panic == [kind |-> "panic", n |-> 0, v |-> <<>>]   \* a Go runtime panic in the handler
NilReply == [kind |-> "nil", n |-> 0, v |-> <<>>]   \* the nil bulk string "$-1"
ScoreReply(s) == [kind |-> "score", n |-> s, v |-> <<>>]   \* a score, "+%f"

\* ------------------------------------------------------- command arrays
\* cmd[0] is name; keys are the key arguments in argument order; ints the
\* numeric arguments, strs the remaining tokens; intsOk is FALSE when a
\* numeric argument does not parse as a number; opts are the option tokens,
\* in lower case.
Command(name, keys, ints, strs, intsOk) ==
  [name |-> name, keys |-> keys, ints |-> ints, strs |-> strs, intsOk |-> intsOk,
   opts |-> <<>>]
OptCommand(name, keys, opts, ints, strs, intsOk) ==
  [Command(name, keys, ints, strs, intsOk) EXCEPT !.opts = opts]
NoCommand == Command("", <<>>, <<>>, <<>>, TRUE)
\* Whether the option token is among the options of command c.
HasOption(c, option) == \E i \in 1..Len(c.opts) : c.opts[i] = option

\* ----------------------------------------------------------- the locals
\* val, val2: values read by GetValue; defers: the deferred calls, last
\* registered first; err: the error a handler returns after unlocking;
\* i: the index of a loop over the keys; sets: the sorted sets collected by
\* the loop, with their weights; locks: the keys of the handler's locks map.
NoLocals == [val |-> Absent, val2 |-> Absent, defers |-> <<>>, err |-> "",
             i |-> 0, sets |-> <<>>, locks |-> {}]

\* The history of a command: before is the keyspace when the command was
\* dispatched, absent is TRUE once KeyExists has answered false, live is
\* the count of members the replies of the earlier commands account for.
NoTrace == [lockFailed |-> FALSE, getNoLock |-> FALSE, setNoLock |-> FALSE,
            badUnlock |-> FALSE, wrote |-> FALSE, wroteAfterFail |-> FALSE,
            kindCheck |-> "none", absent |-> FALSE, before |-> <<>>,
            live |-> <<>>]
SawAbsent(t) == [t EXCEPT !.absent = TRUE]

\* ------------------------------------------------- the server interface
KeyExists(k) == store[k].kind # "absent"

HoldsLock(p, k) == wlock[k] = p \/ rlock[k][p] > 0
HeldLocks(p) == {k \in Keys : HoldsLock(p, k)}

\* A lock request fails at once on a cancelled context or an absent key.
LockFails(p, k) == cancelled[p] \/ ~KeyExists(k)

\* KeyLock: the write lock is granted when no client holds the key's lock.
KeyLockReady(p, k) ==
  LockFails(p, k) \/ (wlock[k] = NoProc /\ \A q \in Procs : rlock[k][q] = 0)
KeyLock(p, k) == IF LockFails(p, k) THEN wlock ELSE [wlock EXCEPT ![k] = p]

\* KeyRLock: a read lock is granted when no client holds the write lock.
KeyRLockReady(p, k) == LockFails(p, k) \/ wlock[k] = NoProc
KeyRLock(p, k) ==
  IF LockFails(p, k) THEN rlock ELSE [rlock EXCEPT ![k][p] = @ + 1]

\* The history after a lock request.
Locked(p, k) ==
  IF LockFails(p, k) THEN [trace[p] EXCEPT !.lockFailed = TRUE] ELSE trace[p]

\* CreateKeyAndLock: inserts the entry with its write lock held; an existing
\* key or a cancelled context is an error.
CreateFails(p, k) == cancelled[p] \/ KeyExists(k)
CreateKeyAndLock(p, k) ==
  IF CreateFails(p, k) THEN wlock ELSE [wlock EXCEPT ![k] = p]
CreatedStore(p, k) ==
  IF CreateFails(p, k) THEN store ELSE [store EXCEPT ![k] = NilValue]
Created(p, k) ==
  IF CreateFails(p, k) THEN [trace[p] EXCEPT !.lockFailed = TRUE] ELSE trace[p]

\* KeyUnlock: the write lock is released, whoever holds it.
KeyUnlock(p, k) == [wlock EXCEPT ![k] = NoProc]
Unlocked(p, k) ==
  IF wlock[k] = p THEN trace[p] ELSE [trace[p] EXCEPT !.badUnlock = TRUE]

\* KeyRUnlock: one read lock is released: the caller's when it holds one,
\* otherwise that of any reader (the lock does not know its holders).
KeyRUnlock(p, k) ==
  IF rlock[k][p] > 0 THEN {[rlock EXCEPT ![k][p] = @ - 1]}
  ELSE IF \E q \in Procs : rlock[k][q] > 0
       THEN {[rlock EXCEPT ![k][q] = @ - 1] : q \in {q \in Procs : rlock[k][q] > 0}}
       ELSE {rlock}
RUnlocked(p, k) ==
  IF rlock[k][p] > 0 THEN trace[p] ELSE [trace[p] EXCEPT !.badUnlock = TRUE]

\* GetValue: the value stored at the key (nil for an absent key).
GetValue(k) == store[k]
Got(p, k) ==
  IF HoldsLock(p, k) THEN trace[p] ELSE [trace[p] EXCEPT !.getNoLock = TRUE]

\* SetValue: the value at the key is replaced.
SetValue(k, v) == [store EXCEPT ![k] = v]
Wrote(p, k) ==
  [trace[p] EXCEPT !.wrote = TRUE,
                   !.wroteAfterFail = @ \/ trace[p].lockFailed,
                   !.setNoLock = @ \/ wlock[k] # p]

\* The history after a failed type assertion on the value read at k.
KindChecked(t, p, k) ==
  [t EXCEPT !.kindCheck = IF HoldsLock(p, k) THEN "held" ELSE "unheld"]

\* ------------------------------------------------------ steps of a client
\* Client p moves to label l with locals lc and history t; the keyspace
\* becomes (s, w, r).
Step(p, l, lc, t, s, w, r) ==
  /\ pc' = [pc EXCEPT ![p] = l]
  /\ loc' = [loc EXCEPT ![p] = lc]
  /\ trace' = [trace EXCEPT ![p] = t]
  /\ store' = s
  /\ wlock' = w
  /\ rlock' = r
  /\ UNCHANGED <<cmd, cancelled, reply, served>>

\* The handler returns rp; its deferred calls run next.
Return(p, rp, t, s, w, r) ==
  /\ pc' = [pc EXCEPT ![p] = IF loc[p].defers = <<>> THEN "done" ELSE "defer"]
  /\ reply' = [reply EXCEPT ![p] = rp]
  /\ trace' = [trace EXCEPT ![p] = t]
  /\ store' = s
  /\ wlock' = w
  /\ rlock' = r
  /\ UNCHANGED <<cmd, cancelled, loc, served>>

Defer(p, call, k) == [loc[p] EXCEPT !.defers = <<[call |-> call, key |-> k]>> \o @]

\* The deferred closure of the set-operation handlers: KeyRUnlock on every
\* key of the locks map.
KeyRUnlockAll(p, ks) ==
  [k \in Keys |-> IF k \in ks /\ rlock[k][p] > 0
                  THEN [rlock[k] EXCEPT ![p] = @ - 1] ELSE rlock[k]]

\* A deferred KeyUnlock or KeyRUnlock runs when the handler returns or panics.
RunDeferred(p) ==
  /\ pc[p] = "defer"
  /\ LET d == Head(loc[p].defers)
         rest == Tail(loc[p].defers)
     IN /\ pc' = [pc EXCEPT ![p] = IF rest = <<>> THEN "done" ELSE "defer"]
        /\ loc' = [loc EXCEPT ![p].defers = rest]
        /\ \/ /\ d.call = "KeyUnlock"
              /\ wlock' = KeyUnlock(p, d.key)
              /\ rlock' = rlock
              /\ trace' = [trace EXCEPT ![p] = Unlocked(p, d.key)]
           \/ /\ d.call = "KeyRUnlock"
              /\ wlock' = wlock
              /\ rlock' \in KeyRUnlock(p, d.key)
              /\ trace' = [trace EXCEPT ![p] = RUnlocked(p, d.key)]
           \/ /\ d.call = "locks"
              /\ wlock' = wlock
              /\ rlock' = KeyRUnlockAll(p, loc[p].locks)
              /\ trace' = trace
        /\ UNCHANGED <<store, cmd, cancelled, reply, served>>

\* The connection layer cancels the context of a running command.
Cancel(p) ==
  /\ pc[p] \notin {"idle", "done"}
  /\ ~cancelled[p]
  /\ cancelled' = [cancelled EXCEPT ![p] = TRUE]
  /\ UNCHANGED <<store, wlock, rlock, pc, cmd, loc, reply, trace, served>>

\* The dispatcher hands command c, with a fresh context, to its handler; at
\* most max commands are handed to a client, and t is the history the
\* command starts with.
Dispatch(p, c, max, t) ==
  /\ pc[p] \in {"idle", "done"}
  /\ served[p] < max
  /\ served' = [served EXCEPT ![p] = @ + 1]
  /\ pc' = [pc EXCEPT ![p] = "start"]
  /\ cmd' = [cmd EXCEPT ![p] = c]
  /\ loc' = [loc EXCEPT ![p] = NoLocals]
  /\ reply' = [reply EXCEPT ![p] = NoReply]
  /\ cancelled' = [cancelled EXCEPT ![p] = FALSE]
  /\ trace' = [trace EXCEPT ![p] = [t EXCEPT !.before = store]]
  /\ UNCHANGED <<store, wlock, rlock>>

Start(p, c) == Dispatch(p, c, MaxCmds, NoTrace)

Running(p, names) == cmd[p].name \in names /\ pc[p] \notin {"idle", "done", "defer"}

\* ------------------------------------------------------------- scalars
\* The scalars a list or a hash holds: a string, an int or a float64. A float is kept
\* as its number of halves (1.5 is 3 halves), which is exact for the numbers
\* the commands below can write.
StringScalar(s) == [type |-> "string", str |-> s, num |-> 0]
IntScalar(n) == [type |-> "int", str |-> "", num |-> n]
FloatScalar(halves) == [type |-> "float64", str |-> "", num |-> halves]

\* The tokens that read as numbers, with the number they read as, in
\* halves; every other token is not a number.
NumberTokens ==
  <<[token |-> "0", halves |-> 0], [token |-> "1", halves |-> 2],
    [token |-> "2", halves |-> 4], [token |-> "3", halves |-> 6],
    [token |-> "-1", halves |-> -2], [token |-> "02", halves |-> 4],
    [token |-> "0.5", halves |-> 1], [token |-> "1.5", halves |-> 3],
    [token |-> "1.50", halves |-> 3], [token |-> "2.0", halves |-> 4]>>
IntegerTokens == {"0", "1", "2", "3", "-1", "02"}
IsNumber(s) == \E i \in 1..Len(NumberTokens) : NumberTokens[i].token = s
\* strconv.ParseFloat(s, 64), in halves
ParseFloat(s) ==
  NumberTokens[CHOOSE i \in 1..Len(NumberTokens) : NumberTokens[i].token = s].halves
\* strconv.Atoi(s)
AtoiOk(s) == s \in IntegerTokens
Atoi(s) == ParseFloat(s) \div 2

\* strconv.FormatFloat(f, 'f', -1, 64): the shortest text that reads as f.
FormatFloat(halves) ==
  LET a == IF halves < 0 THEN 0 - halves ELSE halves
      text == IF a % 2 = 0 THEN ToString(a \div 2) ELSE ToString(a \div 2) \o ".5"
  IN IF halves < 0 THEN "-" \o text ELSE text

\* internal.AdaptType: a token that reads as a whole number becomes an int,
\* one that reads as another number a float64, any other token stays a string.
AdaptType(s) ==
  IF ~IsNumber(s) THEN StringScalar(s)
  ELSE IF ParseFloat(s) % 2 = 0 THEN IntScalar(ParseFloat(s) \div 2)
  ELSE FloatScalar(ParseFloat(s))

\* fmt.Sprintf("%v", value): the text the list commands print and compare.
Sprintv(value) ==
  IF value.type = "string" THEN value.str
  ELSE IF value.type = "int" THEN ToString(value.num)
  ELSE FormatFloat(value.num)

\* The elements a push or LSET stores for the tokens, each by the text it
\* prints as.
adaptElems(tokens) == [i \in 1..Len(tokens) |-> Sprintv(AdaptType(tokens[i]))]

\* ------------------------------------------------------------ list module
IsList(v) == v.kind = "list"
Reverse(s) == [i \in 1..Len(s) |-> s[Len(s) + 1 - i]]
\* The variant in which a slice expression yields the whole list.
Slice_whole(l, lo, hi) == l
\* Go's l[lo:hi]
Slice(l, lo, hi) == SubSeq(l, lo + 1, hi)

\* LLEN key
handleLLen(p) ==
  LET k == cmd[p].keys[1] IN
  /\ Running(p, {"llen"})
  /\ \/ /\ pc[p] = "start"
        /\ IF ~KeyExists(k)
           THEN Return(p, Err("LLEN command on non-list item"), trace[p], store, wlock, rlock)
           ELSE Step(p, "rlock", loc[p], trace[p], store, wlock, rlock)
     \/ /\ pc[p] = "rlock"
        /\ KeyRLockReady(p, k)
        /\ Step(p, "get", loc[p], Locked(p, k), store, wlock, KeyRLock(p, k))
     \/ /\ pc[p] = "get"
        /\ Step(p, "runlock", [loc[p] EXCEPT !.val = GetValue(k)], Got(p, k),
                store, wlock, rlock)
     \/ /\ pc[p] = "runlock"
        /\ \E r \in KeyRUnlock(p, k) :
             Return(p, IF IsList(loc[p].val) THEN IntReply(Len(loc[p].val.seq))
                       ELSE Err("LLEN command on non-list item"),
                    RUnlocked(p, k), store, wlock, r)

\* The reply of LINDEX from the value read.
lindexReply(v, index) ==
  IF ~IsList(v) THEN Err("LINDEX command on non-list item")
  ELSE IF ~(index >= 0 /\ index < Len(v.seq)) THEN Err("index must be within list range")
  ELSE StrReply(v.seq[index + 1])

\* LINDEX key index
handleLIndex(p) ==
  LET k == cmd[p].keys[1] IN
  /\ Running(p, {"lindex"})
  /\ \/ /\ pc[p] = "start"
        /\ IF ~cmd[p].intsOk
           THEN Return(p, Err("index must be an integer"), trace[p], store, wlock, rlock)
           ELSE IF ~KeyExists(k)
           THEN Return(p, Err("LINDEX command on non-list item"), trace[p], store, wlock, rlock)
           ELSE Step(p, "rlock", loc[p], trace[p], store, wlock, rlock)
     \/ /\ pc[p] = "rlock"
        /\ KeyRLockReady(p, k)
        /\ Step(p, "get", loc[p], Locked(p, k), store, wlock, KeyRLock(p, k))
     \/ /\ pc[p] = "get"
        /\ Step(p, "runlock", [loc[p] EXCEPT !.val = GetValue(k)], Got(p, k),
                store, wlock, rlock)
     \/ /\ pc[p] = "runlock"
        /\ \E r \in KeyRUnlock(p, k) :
             Return(p, lindexReply(loc[p].val, cmd[p].ints[1]), RUnlocked(p, k),
                    store, wlock, r)

\* The reply of LRANGE from the value read.
lrangeReply(v, start, end) ==
  LET list == v.seq IN
  IF ~IsList(v) THEN Err("type cannot be returned with LRANGE command")
  ELSE IF ~(start >= 0 /\ start < Len(list)) THEN Err("start index not within list range")
  ELSE IF ~((end >= 0 /\ end < Len(list)) \/ end = -1)
  THEN Err("end index must be within list range or -1")
  ELSE IF end = -1 THEN ArrayReply(Slice(list, start, Len(list)))
  ELSE IF start = end THEN Err("start and end indices cannot be equal")
  ELSE IF start < end THEN ArrayReply(Slice(list, start, end + 1))
  ELSE ArrayReply(Reverse(Slice(list, end, start + 1)))

\* LRANGE key start end
handleLRange(p) ==
  LET k == cmd[p].keys[1] IN
  /\ Running(p, {"lrange"})
  /\ \/ /\ pc[p] = "start"
        /\ IF ~cmd[p].intsOk
           THEN Return(p, Err("both start and end indices must be integers"), trace[p],
                       store, wlock, rlock)
           ELSE IF ~KeyExists(k)
           THEN Return(p, Err("LRANGE command on non-list item"), trace[p], store, wlock, rlock)
           ELSE Step(p, "rlock", loc[p], trace[p], store, wlock, rlock)
     \/ /\ pc[p] = "rlock"
        /\ KeyRLockReady(p, k)
        /\ Step(p, "get", loc[p], Locked(p, k), store, wlock, KeyRLock(p, k))
     \/ /\ pc[p] = "get"
        /\ Step(p, "runlock", [loc[p] EXCEPT !.val = GetValue(k)], Got(p, k),
                store, wlock, rlock)
     \/ /\ pc[p] = "runlock"
        /\ \E r \in KeyRUnlock(p, k) :
             Return(p, lrangeReply(loc[p].val, cmd[p].ints[1], cmd[p].ints[2]),
                    RUnlocked(p, k), store, wlock, r)

\* The error LSET finds in the value read, "" when there is none.
lsetError(v, intsOk, index) ==
  IF ~IsList(v) THEN "LSET command on non-list item"
  ELSE IF ~intsOk THEN "index must be an integer"
  ELSE IF ~(index >= 0 /\ index < Len(v.seq)) THEN "index must be within range"
  ELSE ""

\* LSET key index value
handleLSet(p) ==
  LET k == cmd[p].keys[1]
      index == cmd[p].ints[1]
  IN
  /\ Running(p, {"lset"})
  /\ \/ /\ pc[p] = "start"
        /\ IF ~KeyExists(k)
           THEN Return(p, Err("LSET command on non-list item"), trace[p], store, wlock, rlock)
           ELSE Step(p, "lock", loc[p], trace[p], store, wlock, rlock)
     \/ /\ pc[p] = "lock"
        /\ KeyLockReady(p, k)
        /\ Step(p, "get", loc[p], Locked(p, k), store, KeyLock(p, k), rlock)
     \/ /\ pc[p] = "get"
        /\ LET v == GetValue(k)
               e == lsetError(v, cmd[p].intsOk, index)
           IN Step(p, IF e = "" THEN "set" ELSE "unlock",
                   [loc[p] EXCEPT !.val = v, !.err = e],
                   IF IsList(v) THEN Got(p, k) ELSE KindChecked(Got(p, k), p, k),
                   store, wlock, rlock)
     \/ /\ pc[p] = "set"
        /\ Step(p, "unlock", loc[p], Wrote(p, k),
                SetValue(k, ListValue([loc[p].val.seq EXCEPT ![index + 1] = adaptElems(cmd[p].strs)[1]])),
                wlock, rlock)
     \/ /\ pc[p] = "unlock"
        /\ Return(p, IF loc[p].err = "" THEN Ok ELSE Err(loc[p].err), Unlocked(p, k),
                  store, KeyUnlock(p, k), rlock)

\* LTRIM key start end
handleLTrim(p) ==
  LET k == cmd[p].keys[1]
      start == cmd[p].ints[1]
      end == cmd[p].ints[2]
  IN
  /\ Running(p, {"ltrim"})
  /\ \/ /\ pc[p] = "start"
        /\ IF ~cmd[p].intsOk
           THEN Return(p, Err("start and end indices must be integers"), trace[p],
                       store, wlock, rlock)
           ELSE IF end < start /\ end # -1
           THEN Return(p, Err("end index must be greater than start index or -1"), trace[p],
                       store, wlock, rlock)
           ELSE IF ~KeyExists(k)
           THEN Return(p, Err("LTRIM command on non-list item"), trace[p], store, wlock, rlock)
           ELSE Step(p, "lock", loc[p], trace[p], store, wlock, rlock)
     \/ /\ pc[p] = "lock"
        /\ KeyLockReady(p, k)
        /\ Step(p, "get", loc[p], Locked(p, k), store, KeyLock(p, k), rlock)
     \/ /\ pc[p] = "get"
        /\ LET v == GetValue(k) IN
           IF ~IsList(v)
           THEN Return(p, Err("LTRIM command on non-list item"), KindChecked(Got(p, k), p, k),
                       store, wlock, rlock)
           ELSE IF ~(start >= 0 /\ start < Len(v.seq))
           THEN Return(p, Err("start index must be within list boundary"), Got(p, k),
                       store, wlock, rlock)
           ELSE Step(p, "set", [loc[p] EXCEPT !.val = v], Got(p, k), store, wlock, rlock)
     \/ /\ pc[p] = "set"
        /\ LET list == loc[p].val.seq IN
           Step(p, "unlock", loc[p], Wrote(p, k),
                SetValue(k, ListValue(IF end = -1 \/ end > Len(list)
                                      THEN Slice(list, start, Len(list))
                                      ELSE Slice(list, start, end))),
                wlock, rlock)
     \/ /\ pc[p] = "unlock"
        /\ Return(p, Ok, Unlocked(p, k), store, KeyUnlock(p, k), rlock)

\* The list without the first n elements equal to value (all of them when
\* there are fewer than n).
RECURSIVE removeFromHead(_, _, _)
removeFromHead(list, value, n) ==
  IF list = <<>> \/ n = 0 THEN list
  ELSE IF Head(list) = value THEN removeFromHead(Tail(list), value, n - 1)
  ELSE <<Head(list)>> \o removeFromHead(Tail(list), value, n)

\* The list LREM stores: count > 0 drops matches from the head, count < 0
\* from the tail, and count = 0 keeps the list as it is.
lremList(list, count, value) ==
  IF count > 0 THEN removeFromHead(list, value, count)
  ELSE IF count < 0 THEN Reverse(removeFromHead(Reverse(list), value, -count))
  ELSE list

\* LREM key count value
handleLRem(p) ==
  LET k == cmd[p].keys[1] IN
  /\ Running(p, {"lrem"})
  /\ \/ /\ pc[p] = "start"
        /\ IF ~cmd[p].intsOk
           THEN Return(p, Err("count must be an integer"), trace[p], store, wlock, rlock)
           ELSE IF ~KeyExists(k)
           THEN Return(p, Err("LREM command on non-list item"), trace[p], store, wlock, rlock)
           ELSE Step(p, "lock", loc[p], trace[p], store, wlock, rlock)
     \/ /\ pc[p] = "lock"
        /\ KeyLockReady(p, k)
        /\ Step(p, "get", loc[p], Locked(p, k), store, KeyLock(p, k), rlock)
     \/ /\ pc[p] = "get"
        /\ LET v == GetValue(k) IN
           IF ~IsList(v)
           THEN Return(p, Err("LREM command on non-list item"), KindChecked(Got(p, k), p, k),
                       store, wlock, rlock)
           ELSE Step(p, "set", [loc[p] EXCEPT !.val = v], Got(p, k), store, wlock, rlock)
     \/ /\ pc[p] = "set"
        /\ Step(p, "unlock", loc[p], Wrote(p, k),
                SetValue(k, ListValue(lremList(loc[p].val.seq, cmd[p].ints[1], cmd[p].strs[1]))),
                wlock, rlock)
     \/ /\ pc[p] = "unlock"
        /\ Return(p, Ok, Unlocked(p, k), store, KeyUnlock(p, k), rlock)

Wheres == {"left", "right"}

\* LMOVE source destination <LEFT | RIGHT> <LEFT | RIGHT>
handleLMove(p) ==
  LET src == cmd[p].keys[1]
      dst == cmd[p].keys[2]
      whereFrom == cmd[p].strs[1]
      whereTo == cmd[p].strs[2]
      source == loc[p].val.seq
      destination == loc[p].val2.seq
  IN
  /\ Running(p, {"lmove"})
  /\ \/ /\ pc[p] = "start"
        /\ IF whereFrom \notin Wheres \/ whereTo \notin Wheres
           THEN Return(p, Err("wherefrom and whereto arguments must be either LEFT or RIGHT"),
                       trace[p], store, wlock, rlock)
           ELSE IF ~KeyExists(src)
           THEN Return(p, Err("both source and destination must be lists"), trace[p],
                       store, wlock, rlock)
           ELSE Step(p, "exists2", loc[p], trace[p], store, wlock, rlock)
     \/ /\ pc[p] = "exists2"
        /\ IF ~KeyExists(dst)
           THEN Return(p, Err("both source and destination must be lists"), trace[p],
                       store, wlock, rlock)
           ELSE Step(p, "lock", loc[p], trace[p], store, wlock, rlock)
     \/ /\ pc[p] = "lock"
        /\ KeyLockReady(p, src)
        /\ Step(p, "lock2", loc[p], Locked(p, src), store, KeyLock(p, src), rlock)
     \/ /\ pc[p] = "lock2"
        /\ KeyLockReady(p, dst)
        /\ Step(p, "get", loc[p], Locked(p, dst), store, KeyLock(p, dst), rlock)
     \/ /\ pc[p] = "get"
        /\ Step(p, "get2", [loc[p] EXCEPT !.val = GetValue(src)], Got(p, src),
                store, wlock, rlock)
     \/ /\ pc[p] = "get2"
        /\ LET v2 == GetValue(dst) IN
           IF ~IsList(loc[p].val) \/ ~IsList(v2)
           THEN Return(p, Err("both source and destination must be lists"),
                       KindChecked(Got(p, dst), p, IF IsList(loc[p].val) THEN dst ELSE src),
                       store, wlock, rlock)
           ELSE Step(p, "set", [loc[p] EXCEPT !.val2 = v2], Got(p, dst), store, wlock, rlock)
     \/ /\ pc[p] = "set"
        /\ IF source = <<>>
           THEN Return(p, Panic, trace[p], store, wlock, rlock)
           ELSE Step(p, "set2", loc[p], Wrote(p, src),
                     SetValue(src, ListValue(IF whereFrom = "left"
                                             THEN Slice(source, 1, Len(source))
                                             ELSE Slice(source, 0, Len(source) - 1))),
                     wlock, rlock)
     \/ /\ pc[p] = "set2"
        /\ LET elem == IF whereFrom = "left" THEN source[1] ELSE source[Len(source)] IN
           Step(p, "unlock", loc[p], Wrote(p, dst),
                SetValue(dst, ListValue(IF whereTo = "left" THEN <<elem>> \o destination
                                        ELSE Append(destination, elem))),
                wlock, rlock)
     \/ /\ pc[p] = "unlock"
        /\ Step(p, "unlock2", loc[p], Unlocked(p, src), store, KeyUnlock(p, src), rlock)
     \/ /\ pc[p] = "unlock2"
        /\ Return(p, Ok, Unlocked(p, dst), store, KeyUnlock(p, dst), rlock)

\* The variant in which a push stores the list it found.
pushList_dropped(name, newElems, l) == l

\* The list a push stores: LPUSH puts the new elements in front, RPUSH behind.
pushList(name, newElems, l) ==
  IF name \in {"lpush", "lpushx"} THEN newElems \o l ELSE l \o newElems

\* LPUSH key value1 [value2] / LPUSHX key value
handleLPush(p) ==
  LET key == cmd[p].keys[1] IN
  /\ Running(p, {"lpush", "lpushx"})
  /\ \/ /\ pc[p] = "start"
        /\ IF KeyExists(key)
           THEN Step(p, "get", Defer(p, "KeyUnlock", key), trace[p], store, wlock, rlock)
           ELSE IF cmd[p].name = "lpushx"
           THEN Return(p, Err("lpushx command on non-list item"), trace[p], store, wlock, rlock)
           ELSE Step(p, "create", loc[p], trace[p], store, wlock, rlock)
     \/ /\ pc[p] = "create"
        /\ Step(p, "setempty", loc[p], Created(p, key), CreatedStore(p, key),
                CreateKeyAndLock(p, key), rlock)
     \/ /\ pc[p] = "setempty"
        /\ Step(p, "get", Defer(p, "KeyUnlock", key), Wrote(p, key),
                SetValue(key, ListValue(<<>>)), wlock, rlock)
     \/ /\ pc[p] = "get"
        /\ LET currentList == GetValue(key) IN
           IF ~IsList(currentList)
           THEN Return(p, Err("lpush command on non-list item"),
                       KindChecked(Got(p, key), p, key), store, wlock, rlock)
           ELSE Step(p, "set", [loc[p] EXCEPT !.val = currentList], Got(p, key),
                     store, wlock, rlock)
     \/ /\ pc[p] = "set"
        /\ Return(p, Ok, Wrote(p, key),
                  SetValue(key, ListValue(pushList(cmd[p].name, adaptElems(cmd[p].strs),
                                            loc[p].val.seq))),
                  wlock, rlock)

\* RPUSH key value [value2] / RPUSHX key value
handleRPush(p) ==
  LET key == cmd[p].keys[1] IN
  /\ Running(p, {"rpush", "rpushx"})
  /\ \/ /\ pc[p] = "start"
        /\ IF KeyExists(key)
           THEN Step(p, "get", Defer(p, "KeyUnlock", key), trace[p], store, wlock, rlock)
           ELSE IF cmd[p].name = "rpushx"
           THEN Return(p, Err("rpushx command on non-list item"), trace[p], store, wlock, rlock)
           ELSE Step(p, "create", loc[p], trace[p], store, wlock, rlock)
     \/ /\ pc[p] = "create"
        /\ Step(p, "setempty", loc[p], Created(p, key), CreatedStore(p, key),
                CreateKeyAndLock(p, key), rlock)
     \/ /\ pc[p] = "setempty"
        /\ Step(p, "get", Defer(p, "KeyUnlock", key), Wrote(p, key),
                SetValue(key, ListValue(<<>>)), wlock, rlock)
     \/ /\ pc[p] = "get"
        /\ LET currentList == GetValue(key) IN
           IF ~IsList(currentList)
           THEN Return(p, Err("RPUSH command on non-list item"),
                       KindChecked(Got(p, key), p, key), store, wlock, rlock)
           ELSE Step(p, "set", [loc[p] EXCEPT !.val = currentList], Got(p, key),
                     store, wlock, rlock)
     \/ /\ pc[p] = "set"
        /\ Return(p, Ok, Wrote(p, key),
                  SetValue(key, ListValue(pushList(cmd[p].name, adaptElems(cmd[p].strs),
                                            loc[p].val.seq))),
                  wlock, rlock)

\* LPOP key / RPOP key
handlePop(p) ==
  LET k == cmd[p].keys[1]
      list == loc[p].val.seq
  IN
  /\ Running(p, {"lpop", "rpop"})
  /\ \/ /\ pc[p] = "start"
        /\ IF ~KeyExists(k)
           THEN Return(p, Err("command on non-list item"), trace[p], store, wlock, rlock)
           ELSE Step(p, "lock", loc[p], trace[p], store, wlock, rlock)
     \/ /\ pc[p] = "lock"
        /\ KeyLockReady(p, k)
        /\ Step(p, "get", Defer(p, "KeyUnlock", k), Locked(p, k), store, KeyLock(p, k), rlock)
     \/ /\ pc[p] = "get"
        /\ LET v == GetValue(k) IN
           IF ~IsList(v)
           THEN Return(p, Err("command on non-list item"), KindChecked(Got(p, k), p, k),
                       store, wlock, rlock)
           ELSE Step(p, "set", [loc[p] EXCEPT !.val = v], Got(p, k), store, wlock, rlock)
     \/ /\ pc[p] = "set"
        /\ IF list = <<>>
           THEN Return(p, Panic, trace[p], store, wlock, rlock)
           ELSE IF cmd[p].name = "rpop"
           THEN Return(p, StrReply(list[Len(list)]), Wrote(p, k),
                       SetValue(k, ListValue(Slice(list, 0, Len(list) - 1))), wlock, rlock)
           ELSE Return(p, StrReply(list[1]), Wrote(p, k),
                       SetValue(k, ListValue(Slice(list, 1, Len(list)))), wlock, rlock)

\* ------------------------------------------------------- initial states
InitClients ==
  /\ wlock = [k \in Keys |-> NoProc]
  /\ rlock = [k \in Keys |-> [p \in Procs |-> 0]]
  /\ pc = [p \in Procs |-> "idle"]
  /\ cmd = [p \in Procs |-> NoCommand]
  /\ loc = [p \in Procs |-> NoLocals]
  /\ reply = [p \in Procs |-> NoReply]
  /\ cancelled = [p \in Procs |-> FALSE]
  /\ trace = [p \in Procs |-> NoTrace]
  /\ served = [p \in Procs |-> 0]

\* ------------------------------------------- the list module, one client
Indexes == {-1, 0, 1, 2}

ListCommands ==
  {Command(n, <<k>>, <<>>, <<>>, TRUE) : n \in {"llen", "lpop", "rpop"}, k \in Keys}
  \cup {Command("lindex", <<k>>, <<i>>, <<>>, ok) : k \in Keys, i \in Indexes, ok \in BOOLEAN}
  \cup {Command(n, <<"a">>, <<i, j>>, <<>>, TRUE) : n \in {"lrange", "ltrim"},
                                                   i \in Indexes, j \in Indexes}
  \cup {Command(n, <<"a">>, <<0, 0>>, <<>>, FALSE) : n \in {"lrange", "ltrim"}}
  \cup {Command("lset", <<k>>, <<i>>, <<"y">>, ok) : k \in Keys, i \in Indexes, ok \in BOOLEAN}
  \cup {Command("lrem", <<"a">>, <<i>>, <<e>>, ok) : i \in {-1, 0, 1, 2}, e \in Elems,
                                                   ok \in BOOLEAN}
  \cup {Command("lmove", <<k1, k2>>, <<>>, <<f, t>>, TRUE) :
          k1 \in Keys, k2 \in Keys, f \in Wheres, t \in Wheres}
  \cup {Command("lmove", <<"a", "b">>, <<>>, <<"up", "left">>, TRUE)}
  \cup {Command(n, <<k>>, <<>>, <<e>>, TRUE) :
          n \in {"lpush", "lpushx", "rpush", "rpushx"}, k \in Keys, e \in Elems}
  \cup {Command(n, <<"a">>, <<>>, <<"x", "y">>, TRUE) : n \in {"lpush", "rpush"}}

ListValues == {Absent, ListValue(<<>>), ListValue(<<"x">>), ListValue(<<"x", "y">>),
               ListValue(<<"y", "x", "y">>), StringValue(<<"s">>)}

InitList == store \in [Keys -> ListValues] /\ InitClients

NextList ==
  \/ \E c \in ListCommands : Start(1, c)
  \/ Cancel(1)
  \/ RunDeferred(1)
  \/ handleLLen(1)
  \/ handleLIndex(1)
  \/ handleLRange(1)
  \/ handleLSet(1)
  \/ handleLTrim(1)
  \/ handleLRem(1)
  \/ handleLMove(1)
  \/ handleLPush(1)
  \/ handleRPush(1)
  \/ handlePop(1)

SpecList == InitList /\ [][NextList]_vars

\* ------------------------------------------ LMOVE run by two clients
LMoveCommands ==
  {Command("lmove", <<k1, k2>>, <<>>, <<f, "left">>, TRUE) :
     k1 \in Keys, k2 \in Keys, f \in Wheres}

InitLMove ==
  /\ store \in [Keys -> {ListValue(<<"x">>), ListValue(<<"x", "y">>)}]
  /\ InitClients

NextLMove ==
  \E p \in Procs :
    \/ \E c \in LMoveCommands : Start(p, c)
    \/ handleLMove(p)

SpecLMove == InitLMove /\ [][NextLMove]_vars

\* ------------------------------------------------- the sorted-set engine
\* A sorted set is the set of its member records [value, score].
IsSortedSet(v) == v.kind = "zset"
Members == <<"m", "n", "o">>     \* the member values, in lexicographic order
MemberParam(value, score) == [value |-> value, score |-> score]

\* The strings the commands compare, in the order of their bytes: the
\* member values and the tokens of a lexicographic bound.
Lexicon == <<"(m", "(n", "(o", "+", "-", "[m", "[n", "[o", "m", "n", "o">>

\* internal.CompareLex on two strings: -1, 0 or 1.
CompareLex(a, b) ==
  LET i == CHOOSE i \in 1..Len(Lexicon) : Lexicon[i] = a
      j == CHOOSE j \in 1..Len(Lexicon) : Lexicon[j] = b
  IN IF i < j THEN -1 ELSE IF i = j THEN 0 ELSE 1

Contains(S, v) == \E m \in S : m.value = v
Get(S, v) == CHOOSE m \in S : m.value = v
\* set.Get(value).Score: the zero score for a value that is not a member.
GetScore(S, v) == IF Contains(S, v) THEN Get(S, v).score ELSE 0

\* One member of AddOrUpdate: acc is the set so far and the count so far.
addOrUpdateMember(acc, m, updatePolicy, comparison, changed, incr) ==
  IF ~Contains(acc.set, m.value)
  THEN IF updatePolicy = "xx" THEN acc
       ELSE [set |-> acc.set \cup {m}, count |-> acc.count + 1]
  ELSE LET old == Get(acc.set, m.value)
           score == IF incr = "incr" THEN old.score + m.score ELSE m.score
       IN IF \/ updatePolicy = "nx"
             \/ comparison = "gt" /\ score <= old.score
             \/ comparison = "lt" /\ score >= old.score
             \/ score = old.score
          THEN acc
          ELSE [set |-> (acc.set \ {old}) \cup {MemberParam(m.value, score)},
                count |-> acc.count + IF changed = "ch" THEN 1 ELSE 0]

\* set.AddOrUpdate(members, updatePolicy, comparison, changed, incr): the
\* members are applied in order; the result is the new set and the count.
RECURSIVE addOrUpdateFrom(_, _, _, _, _, _)
addOrUpdateFrom(acc, members, updatePolicy, comparison, changed, incr) ==
  IF members = <<>> THEN acc
  ELSE addOrUpdateFrom(
         addOrUpdateMember(acc, Head(members), updatePolicy, comparison, changed, incr),
         Tail(members), updatePolicy, comparison, changed, incr)

AddOrUpdate(S, members, updatePolicy, comparison, changed, incr) ==
  addOrUpdateFrom([set |-> S, count |-> 0], members, updatePolicy, comparison, changed, incr)

\* sorted_set.NewSortedSet(members)
NewSortedSet(members) == AddOrUpdate({}, members, "", "", "", "").set

\* set.Remove(value): the set without the member, and whether it was there.
Remove(S, v) == {m \in S : m.value # v}

\* The order of the members: by score, ties by value.
Before(m1, m2) ==
  m1.score < m2.score \/ (m1.score = m2.score /\ CompareLex(m1.value, m2.value) < 0)

\* set.Pop(count, policy): the up to count least (min) or greatest (max)
\* members.
Pop(S, count, policy) ==
  {m \in S : Cardinality({o \in S : IF policy = "max" THEN Before(m, o) ELSE Before(o, m)})
               < count}

\* ---------------------------------------------------- sorted-set module
\* The members of a ZADD command, from its score and member tokens.
zaddMembers(c) == [i \in 1..Len(c.ints) |-> MemberParam(c.strs[i], c.ints[i])]

\* The option loop of ZADD: acc holds the options seen so far and the error.
RECURSIVE zaddOptions(_, _, _)
zaddOptions(acc, options, nMembers) ==
  IF options = <<>> \/ acc.err # "" THEN acc
  ELSE LET option == Head(options)
           next ==
             IF option \in {"xx", "nx"}
             THEN IF option = "nx" /\ acc.comparison # ""
                  THEN [acc EXCEPT !.updatePolicy = option,
                                   !.err = "GT/LT flags not allowed if NX flag is provided"]
                  ELSE [acc EXCEPT !.updatePolicy = option]
             ELSE IF option \in {"gt", "lt"}
             THEN IF acc.updatePolicy = "nx"
                  THEN [acc EXCEPT !.comparison = option,
                                   !.err = "GT/LT flags not allowed if NX flag is provided"]
                  ELSE [acc EXCEPT !.comparison = option]
             ELSE IF option = "ch" THEN [acc EXCEPT !.changed = option]
             ELSE IF option = "incr"
             THEN IF nMembers > 1
                  THEN [acc EXCEPT !.incr = option,
                                   !.err = "cannot pass more than one score/member pair when INCR flag is provided"]
                  ELSE [acc EXCEPT !.incr = option]
             ELSE [acc EXCEPT !.err = "invalid option"]
       IN zaddOptions(next, Tail(options), nMembers)

NoOptions == [updatePolicy |-> "", comparison |-> "", changed |-> "", incr |-> "", err |-> ""]

\* key := keys.WriteKeys[0]
zaddKey_wrong(c) == "a"
zaddKey(c) == c.keys[1]

\* ZADD key [NX | XX] [GT | LT] [CH] [INCR] score member [score member ...]
handleZADD(p) ==
  LET key == zaddKey(cmd[p])
      members == zaddMembers(cmd[p])
      o == zaddOptions(NoOptions, cmd[p].opts, Len(members))
  IN
  /\ Running(p, {"zadd"})
  /\ \/ /\ pc[p] = "start"
        /\ IF ~cmd[p].intsOk \/ members = <<>>
           THEN Return(p, Err("score/member pairs must be float/string"), trace[p],
                       store, wlock, rlock)
           ELSE IF o.err # ""
           THEN Return(p, Err(o.err), trace[p], store, wlock, rlock)
           ELSE IF KeyExists(key)
           THEN Step(p, "lock", loc[p], trace[p], store, wlock, rlock)
           ELSE Step(p, "create", loc[p], SawAbsent(trace[p]), store, wlock, rlock)
     \/ /\ pc[p] = "lock"
        /\ KeyLockReady(p, key)
        /\ IF LockFails(p, key)
           THEN Return(p, Err("key lock"), Locked(p, key), store, wlock, rlock)
           ELSE Step(p, "get", Defer(p, "KeyUnlock", key), Locked(p, key), store,
                     KeyLock(p, key), rlock)
     \/ /\ pc[p] = "get"
        /\ LET v == GetValue(key)
               r == AddOrUpdate(v.set, members, o.updatePolicy, o.comparison, o.changed, o.incr)
           IN IF ~IsSortedSet(v)
              THEN Return(p, Err("value is not a sorted set"), KindChecked(Got(p, key), p, key),
                          store, wlock, rlock)
              ELSE Return(p, IF o.incr # "" THEN ScoreReply(GetScore(r.set, members[1].value))
                             ELSE IntReply(r.count),
                          [Got(p, key) EXCEPT !.wrote = TRUE],
                          [store EXCEPT ![key] = SortedSetValue(r.set)], wlock, rlock)
     \/ /\ pc[p] = "create"
        /\ IF CreateFails(p, key)
           THEN Return(p, Err("key create"), Created(p, key), store, wlock, rlock)
           ELSE Step(p, "set", Defer(p, "KeyUnlock", key), Created(p, key),
                     CreatedStore(p, key), CreateKeyAndLock(p, key), rlock)
     \/ /\ pc[p] = "set"
        /\ LET set == NewSortedSet(members) IN
           Return(p, IntReply(Cardinality(set)), Wrote(p, key),
                  SetValue(key, SortedSetValue(set)), wlock, rlock)

\* ------------------------------------------------------------ hash module
\* A hash is the set of its entries [field, value], one per field.
IsHash(v) == v.kind = "hash"
HasField(h, f) == \E e \in h : e.field = f
HashPut(h, f, v) == {e \in h : e.field # f} \cup {[field |-> f, value |-> v]}

\* entries[cmd[i]] = cmd[i+1] for the field/value tokens of the command.
RECURSIVE hsetEntries(_, _)
hsetEntries(entries, tokens) ==
  IF Len(tokens) < 2 THEN entries
  ELSE hsetEntries(HashPut(entries, tokens[1], AdaptType(tokens[2])), Tail(Tail(tokens)))

\* The hash after HSET (every entry is stored) or HSETNX (only the entries
\* whose field the hash does not hold).
hsetHash(name, hash, entries) ==
  IF name = "hsetnx"
  THEN hash \cup {e \in entries : ~HasField(hash, e.field)}
  ELSE {e \in hash : ~HasField(entries, e.field)} \cup entries

hsetCount(name, hash, entries) ==
  IF name = "hsetnx" THEN Cardinality({e \in entries : ~HasField(hash, e.field)})
  ELSE Cardinality(entries)

\* HSET key field value [field value ...] / HSETNX key field value
handleHSET(p) ==
  LET key == cmd[p].keys[1]
      entries == hsetEntries({}, cmd[p].strs)
  IN
  /\ Running(p, {"hset", "hsetnx"})
  /\ \/ /\ pc[p] = "start"
        /\ IF Len(cmd[p].strs) % 2 # 0
           THEN Return(p, Err("each field must have a corresponding value"), trace[p],
                       store, wlock, rlock)
           ELSE IF ~KeyExists(key)
           THEN Step(p, "create", loc[p], SawAbsent(trace[p]), store, wlock, rlock)
           ELSE Step(p, "lock", loc[p], trace[p], store, wlock, rlock)
     \/ /\ pc[p] = "create"
        /\ IF CreateFails(p, key)
           THEN Return(p, Err("key create"), Created(p, key), store, wlock, rlock)
           ELSE Step(p, "setnew", Defer(p, "KeyUnlock", key), Created(p, key),
                     CreatedStore(p, key), CreateKeyAndLock(p, key), rlock)
     \/ /\ pc[p] = "setnew"
        /\ Return(p, IntReply(Cardinality(entries)), Wrote(p, key),
                  SetValue(key, HashValue(entries)), wlock, rlock)
     \/ /\ pc[p] = "lock"
        /\ KeyLockReady(p, key)
        /\ IF LockFails(p, key)
           THEN Return(p, Err("key lock"), Locked(p, key), store, wlock, rlock)
           ELSE Step(p, "get", Defer(p, "KeyUnlock", key), Locked(p, key), store,
                     KeyLock(p, key), rlock)
     \/ /\ pc[p] = "get"
        /\ LET v == GetValue(key) IN
           IF ~IsHash(v)
           THEN Return(p, Err("value is not a hash"), KindChecked(Got(p, key), p, key),
                       store, wlock, rlock)
           ELSE Step(p, "set", [loc[p] EXCEPT !.val = v], Got(p, key), store, wlock, rlock)
     \/ /\ pc[p] = "set"
        /\ Return(p, IntReply(hsetCount(cmd[p].name, loc[p].val.hash, entries)), Wrote(p, key),
                  SetValue(key, HashValue(hsetHash(cmd[p].name, loc[p].val.hash, entries))),
                  wlock, rlock)

\* ------------------------- create-on-absent writes run by two clients
Fields == {"f", "g"}

CreateCommands ==
  {OptCommand("zadd", <<k>>, <<>>, <<1>>, <<m>>, TRUE) : k \in Keys, m \in {"m", "n"}}
  \cup {OptCommand("zadd", <<"a">>, <<"xx">>, <<2>>, <<"m">>, TRUE),
        OptCommand("zadd", <<"a">>, <<>>, <<1>>, <<"m">>, FALSE)}
  \cup {Command("hset", <<k>>, <<>>, <<f, "x">>, TRUE) : k \in Keys, f \in Fields}
  \cup {Command("hsetnx", <<"a">>, <<>>, <<"f", "y">>, TRUE),
        Command("hset", <<"a">>, <<>>, <<"f">>, TRUE)}

CreateValues == {Absent, SortedSetValue({MemberParam("m", 1)}),
                 HashValue({[field |-> "f", value |-> StringScalar("y")]})}

InitCreate == store \in [Keys -> CreateValues] /\ InitClients

\* Each client is handed one command.
NextCreate ==
  \E p \in Procs :
    \/ served[p] = 0 /\ \E c \in CreateCommands : Start(p, c)
    \/ RunDeferred(p)
    \/ handleZADD(p)
    \/ handleHSET(p)

SpecCreate == InitCreate /\ [][NextCreate]_vars

\* ZADD and HSET run on value v with no other client: the value left at the
\* key and the reply.
zaddSerial(c, v) ==
  LET members == zaddMembers(c)
      o == zaddOptions(NoOptions, c.opts, Len(members))
      r == AddOrUpdate(v.set, members, o.updatePolicy, o.comparison, o.changed, o.incr)
  IN IF ~c.intsOk \/ members = <<>>
     THEN [value |-> v, reply |-> Err("score/member pairs must be float/string")]
     ELSE IF o.err # "" THEN [value |-> v, reply |-> Err(o.err)]
     ELSE IF v = Absent
     THEN [value |-> SortedSetValue(NewSortedSet(members)),
           reply |-> IntReply(Cardinality(NewSortedSet(members)))]
     ELSE IF ~IsSortedSet(v) THEN [value |-> v, reply |-> Err("value is not a sorted set")]
     ELSE [value |-> SortedSetValue(r.set),
           reply |-> IF o.incr # "" THEN ScoreReply(GetScore(r.set, members[1].value))
                     ELSE IntReply(r.count)]

hsetSerial(c, v) ==
  LET entries == hsetEntries({}, c.strs) IN
  IF Len(c.strs) % 2 # 0
  THEN [value |-> v, reply |-> Err("each field must have a corresponding value")]
  ELSE IF v = Absent
  THEN [value |-> HashValue(entries), reply |-> IntReply(Cardinality(entries))]
  ELSE IF ~IsHash(v) THEN [value |-> v, reply |-> Err("value is not a hash")]
  ELSE [value |-> HashValue(hsetHash(c.name, v.hash, entries)),
        reply |-> IntReply(hsetCount(c.name, v.hash, entries))]

Serial(c, v) == IF c.name = "zadd" THEN zaddSerial(c, v) ELSE hsetSerial(c, v)

\* ------------------------------------- the set operations on sorted sets
\* The members in order, as a sequence.
SortedSeq(S) ==
  CHOOSE s \in [1..Cardinality(S) -> S] :
    \A i, j \in 1..Cardinality(S) : i < j => Before(s[i], s[j])

\* The reply that lists the members, with their scores when asked to.
\* The variant in which the reply lists no member.
MembersReply_none(S, withscores) == ArrayReply(<<>>)

MembersReply(S, withscores) ==
  ArrayReply([i \in 1..Cardinality(S) |->
                IF withscores THEN SortedSeq(S)[i]
                ELSE MemberParam(SortedSeq(S)[i].value, 0)])

\* set.Subtract(others): the members whose value is in none of the others.
Subtract(S, others) ==
  {m \in S : \A i \in 1..Len(others) : ~Contains(others[i].set, m.value)}

\* The aggregate of a non-empty set of scores.
Aggregate(aggregate, scores) ==
  IF aggregate = "min" THEN CHOOSE x \in scores : \A y \in scores : x <= y
  ELSE CHOOSE x \in scores : \A y \in scores : x >= y

RECURSIVE SumScores(_, _)
SumScores(params, v) ==
  IF params = <<>> THEN 0
  ELSE GetScore(Head(params).set, v) * Head(params).weight + SumScores(Tail(params), v)

\* sorted_set.Intersect(aggregate, params...): the values held by every
\* input, each with the aggregate of its weighted scores.
Intersect(aggregate, params) ==
  IF params = <<>> THEN {}
  ELSE {MemberParam(m.value,
          IF aggregate = "sum" THEN SumScores(params, m.value)
          ELSE Aggregate(aggregate,
                 {GetScore(params[i].set, m.value) * params[i].weight : i \in 1..Len(params)})) :
        m \in {m \in params[1].set :
                 \A i \in 1..Len(params) : Contains(params[i].set, m.value)}}

SortedSetParam(set, weight) == [set |-> set, weight |-> weight]

\* ZDIFFSTORE destination key [key...]
handleZDIFFSTORE(p) ==
  LET destination == cmd[p].keys[1]
      ReadKeys == Tail(cmd[p].keys)
      i == loc[p].i
      key == ReadKeys[i]
      diff == Subtract(loc[p].val.set, loc[p].sets)
  IN
  /\ Running(p, {"zdiffstore"})
  /\ \/ /\ pc[p] = "start"
        /\ Step(p, "exists", Defer(p, "locks", ""), trace[p], store, wlock, rlock)
     \/ /\ pc[p] = "exists"
        /\ IF ~KeyExists(ReadKeys[1])
           THEN Return(p, IntReply(0), trace[p], store, wlock, rlock)
           ELSE Step(p, "rlock", loc[p], trace[p], store, wlock, rlock)
     \/ /\ pc[p] = "rlock"
        /\ KeyRLockReady(p, ReadKeys[1])
        /\ IF LockFails(p, ReadKeys[1])
           THEN Return(p, Err("key lock"), Locked(p, ReadKeys[1]), store, wlock, rlock)
           ELSE Step(p, "get", Defer(p, "KeyRUnlock", ReadKeys[1]), Locked(p, ReadKeys[1]),
                     store, wlock, KeyRLock(p, ReadKeys[1]))
     \/ /\ pc[p] = "get"
        /\ LET v == GetValue(ReadKeys[1]) IN
           IF ~IsSortedSet(v)
           THEN Return(p, Err("value is not a sorted set"), Got(p, ReadKeys[1]),
                       store, wlock, rlock)
           ELSE Step(p, "loop", [loc[p] EXCEPT !.val = v, !.i = 2], Got(p, ReadKeys[1]),
                     store, wlock, rlock)
     \/ /\ pc[p] = "loop"
        /\ IF i > Len(ReadKeys)
           THEN Step(p, IF KeyExists(destination) THEN "lock" ELSE "create", loc[p],
                     trace[p], store, wlock, rlock)
           ELSE IF KeyExists(key)
           THEN Step(p, "rlocki", loc[p], trace[p], store, wlock, rlock)
           ELSE Step(p, "loop", [loc[p] EXCEPT !.i = i + 1], trace[p], store, wlock, rlock)
     \/ /\ pc[p] = "rlocki"
        /\ KeyRLockReady(p, key)
        /\ IF LockFails(p, key)
           THEN Return(p, Err("key lock"), Locked(p, key), store, wlock, rlock)
           ELSE Step(p, "geti", loc[p], Locked(p, key), store, wlock, KeyRLock(p, key))
     \/ /\ pc[p] = "geti"
        /\ LET v == GetValue(key) IN
           IF ~IsSortedSet(v)
           THEN Return(p, Err("value is not a sorted set"), Got(p, key), store, wlock, rlock)
           ELSE Step(p, "loop",
                     [loc[p] EXCEPT !.i = i + 1, !.sets = Append(@, SortedSetParam(v.set, 1))],
                     Got(p, key), store, wlock, rlock)
     \/ /\ pc[p] = "lock"
        /\ KeyLockReady(p, destination)
        /\ IF LockFails(p, destination)
           THEN Return(p, Err("key lock"), Locked(p, destination), store, wlock, rlock)
           ELSE Step(p, "set", Defer(p, "KeyUnlock", destination), Locked(p, destination),
                     store, KeyLock(p, destination), rlock)
     \/ /\ pc[p] = "create"
        /\ IF CreateFails(p, destination)
           THEN Return(p, Err("key create"), Created(p, destination), store, wlock, rlock)
           ELSE Step(p, "set", Defer(p, "KeyUnlock", destination), Created(p, destination),
                     CreatedStore(p, destination), CreateKeyAndLock(p, destination), rlock)
     \/ /\ pc[p] = "set"
        /\ Return(p, IntReply(Cardinality(diff)), Wrote(p, destination),
                  SetValue(destination, SortedSetValue(diff)), wlock, rlock)

\* ZINTER key [key ...] [WEIGHTS weight [weight ...]] [AGGREGATE <SUM | MIN | MAX>]
\* [WITHSCORES]
handleZINTER(p) ==
  LET keys == cmd[p].keys
      weights == cmd[p].ints
      aggregate == cmd[p].opts[1]
      withscores == cmd[p].opts[2] = "withscores"
      i == loc[p].i
  IN
  /\ Running(p, {"zinter"})
  /\ \/ /\ pc[p] = "start"
        /\ Step(p, "loop", [Defer(p, "locks", "") EXCEPT !.i = 1], trace[p],
                store, wlock, rlock)
     \/ /\ pc[p] = "loop"
        /\ IF i > Len(keys)
           THEN Return(p, MembersReply(Intersect(aggregate, loc[p].sets), withscores),
                       trace[p], store, wlock, rlock)
           ELSE IF ~KeyExists(keys[i])
           THEN Return(p, ArrayReply(<<>>), trace[p], store, wlock, rlock)
           ELSE Step(p, "rlocki", loc[p], trace[p], store, wlock, rlock)
     \/ /\ pc[p] = "rlocki"
        /\ KeyRLockReady(p, keys[i])
        /\ IF LockFails(p, keys[i])
           THEN Return(p, Err("key lock"), Locked(p, keys[i]), store, wlock, rlock)
           ELSE Step(p, "geti", [loc[p] EXCEPT !.locks = @ \cup {keys[i]}],
                     Locked(p, keys[i]), store, wlock, KeyRLock(p, keys[i]))
     \/ /\ pc[p] = "geti"
        /\ LET v == GetValue(keys[i]) IN
           IF ~IsSortedSet(v)
           THEN Return(p, Err("value is not a sorted set"), Got(p, keys[i]),
                       store, wlock, rlock)
           ELSE Step(p, "loop",
                     [loc[p] EXCEPT !.i = i + 1,
                                    !.sets = Append(@, SortedSetParam(v.set, weights[i]))],
                     Got(p, keys[i]), store, wlock, rlock)

\* --------------------------- the set operations, one client
ZStoreCommands ==
  {Command("zdiffstore", <<d, k>>, <<>>, <<>>, TRUE) : d \in Keys, k \in Keys}
  \cup {Command("zdiffstore", <<d, k1, k2>>, <<>>, <<>>, TRUE) :
          d \in Keys, k1 \in Keys, k2 \in Keys}
  \cup {OptCommand("zinter", <<k>>, <<"sum", "">>, <<1>>, <<>>, TRUE) : k \in Keys}
  \cup {OptCommand("zinter", <<k1, k2>>, <<g, w>>, <<1, 2>>, <<>>, TRUE) :
          k1 \in Keys, k2 \in Keys, g \in {"sum", "min", "max"}, w \in {"", "withscores"}}

ZStoreValues == {Absent, SortedSetValue({MemberParam("m", 1)}),
                 SortedSetValue({MemberParam("m", 2), MemberParam("n", 1)}),
                 ListValue(<<"x">>)}

InitZStore == store \in [Keys -> ZStoreValues] /\ InitClients

NextZStore ==
  \/ \E c \in ZStoreCommands : Start(1, c)
  \/ Cancel(1)
  \/ RunDeferred(1)
  \/ handleZDIFFSTORE(1)
  \/ handleZINTER(1)

SpecZStore == InitZStore /\ [][NextZStore]_vars

\* ------------------------------- sorted-set module: the single-key writes
\* ZCARD key
handleZCARD(p) ==
  LET key == cmd[p].keys[1] IN
  /\ Running(p, {"zcard"})
  /\ \/ /\ pc[p] = "start"
        /\ IF ~KeyExists(key)
           THEN Return(p, IntReply(0), trace[p], store, wlock, rlock)
           ELSE Step(p, "rlock", loc[p], trace[p], store, wlock, rlock)
     \/ /\ pc[p] = "rlock"
        /\ KeyRLockReady(p, key)
        /\ IF LockFails(p, key)
           THEN Return(p, Err("key lock"), Locked(p, key), store, wlock, rlock)
           ELSE Step(p, "get", Defer(p, "KeyRUnlock", key), Locked(p, key), store, wlock,
                     KeyRLock(p, key))
     \/ /\ pc[p] = "get"
        /\ LET v == GetValue(key) IN
           IF ~IsSortedSet(v)
           THEN Return(p, Err("value is not a sorted set"), Got(p, key), store, wlock, rlock)
           ELSE Return(p, IntReply(Cardinality(v.set)), Got(p, key), store, wlock, rlock)

\* ZINCRBY key increment member
handleZINCRBY(p) ==
  LET key == cmd[p].keys[1]
      member == cmd[p].strs[1]
      increment == cmd[p].ints[1]
  IN
  /\ Running(p, {"zincrby"})
  /\ \/ /\ pc[p] = "start"
        /\ IF ~cmd[p].intsOk
           THEN Return(p, Err("increment must be a double"), trace[p], store, wlock, rlock)
           ELSE IF ~KeyExists(key)
           THEN Step(p, "create", loc[p], SawAbsent(trace[p]), store, wlock, rlock)
           ELSE Step(p, "lock", loc[p], trace[p], store, wlock, rlock)
     \/ /\ pc[p] = "create"
        /\ IF CreateFails(p, key)
           THEN Return(p, Err("key create"), Created(p, key), store, wlock, rlock)
           ELSE Step(p, "set", loc[p], Created(p, key), CreatedStore(p, key),
                     CreateKeyAndLock(p, key), rlock)
     \/ /\ pc[p] = "set"
        /\ Step(p, "unlock", loc[p], Wrote(p, key),
                SetValue(key, SortedSetValue(NewSortedSet(<<MemberParam(member, increment)>>))),
                wlock, rlock)
     \/ /\ pc[p] = "unlock"
        /\ Return(p, ScoreReply(increment), Unlocked(p, key), store, KeyUnlock(p, key), rlock)
     \/ /\ pc[p] = "lock"
        /\ KeyLockReady(p, key)
        /\ IF LockFails(p, key)
           THEN Return(p, Err("key lock"), Locked(p, key), store, wlock, rlock)
           ELSE Step(p, "get", Defer(p, "KeyUnlock", key), Locked(p, key), store,
                     KeyLock(p, key), rlock)
     \/ /\ pc[p] = "get"
        /\ LET v == GetValue(key)
               r == AddOrUpdate(v.set, <<MemberParam(member, increment)>>, "xx", "", "", "incr")
           IN IF ~IsSortedSet(v)
              THEN Return(p, Err("value is not a sorted set"), KindChecked(Got(p, key), p, key),
                          store, wlock, rlock)
              ELSE Return(p, ScoreReply(GetScore(r.set, member)),
                          [Got(p, key) EXCEPT !.wrote = TRUE],
                          [store EXCEPT ![key] = SortedSetValue(r.set)], wlock, rlock)

\* The members ZREM removes one after the other; the count is the number of
\* calls of Remove that found their member.
RECURSIVE zremFrom_miscount(_, _)
zremFrom_miscount(acc, values) ==
  IF values = <<>> THEN acc
  ELSE zremFrom_miscount([set |-> Remove(acc.set, Head(values)), count |-> acc.count + 1],
                         Tail(values))

RECURSIVE zremFrom(_, _)
zremFrom(acc, values) ==
  IF values = <<>> THEN acc
  ELSE zremFrom([set |-> Remove(acc.set, Head(values)),
                 count |-> acc.count + IF Contains(acc.set, Head(values)) THEN 1 ELSE 0],
                Tail(values))

\* ZREM key member [member ...]
handleZREM(p) ==
  LET key == cmd[p].keys[1] IN
  /\ Running(p, {"zrem"})
  /\ \/ /\ pc[p] = "start"
        /\ IF ~KeyExists(key)
           THEN Return(p, IntReply(0), trace[p], store, wlock, rlock)
           ELSE Step(p, "lock", loc[p], trace[p], store, wlock, rlock)
     \/ /\ pc[p] = "lock"
        /\ KeyLockReady(p, key)
        /\ IF LockFails(p, key)
           THEN Return(p, Err("key lock"), Locked(p, key), store, wlock, rlock)
           ELSE Step(p, "get", Defer(p, "KeyUnlock", key), Locked(p, key), store,
                     KeyLock(p, key), rlock)
     \/ /\ pc[p] = "get"
        /\ LET v == GetValue(key)
               r == zremFrom([set |-> v.set, count |-> 0], cmd[p].strs)
           IN IF ~IsSortedSet(v)
              THEN Return(p, Err("value is not a sorted set"), KindChecked(Got(p, key), p, key),
                          store, wlock, rlock)
              ELSE Return(p, IntReply(r.count), [Got(p, key) EXCEPT !.wrote = TRUE],
                          [store EXCEPT ![key] = SortedSetValue(r.set)], wlock, rlock)

\* ZPOPMIN key [count] / ZPOPMAX key [count]
handleZPOP(p) ==
  LET key == cmd[p].keys[1]
      policy == IF cmd[p].name = "zpopmax" THEN "max" ELSE "min"
      count == IF Len(cmd[p].ints) = 1 /\ cmd[p].ints[1] > 0 THEN cmd[p].ints[1] ELSE 1
  IN
  /\ Running(p, {"zpopmin", "zpopmax"})
  /\ \/ /\ pc[p] = "start"
        /\ IF ~cmd[p].intsOk
           THEN Return(p, Err("strconv.Atoi: invalid syntax"), trace[p], store, wlock, rlock)
           ELSE IF ~KeyExists(key)
           THEN Return(p, ArrayReply(<<>>), trace[p], store, wlock, rlock)
           ELSE Step(p, "lock", loc[p], trace[p], store, wlock, rlock)
     \/ /\ pc[p] = "lock"
        /\ KeyLockReady(p, key)
        /\ IF LockFails(p, key)
           THEN Return(p, Err("key lock"), Locked(p, key), store, wlock, rlock)
           ELSE Step(p, "get", Defer(p, "KeyUnlock", key), Locked(p, key), store,
                     KeyLock(p, key), rlock)
     \/ /\ pc[p] = "get"
        /\ LET v == GetValue(key)
               popped == Pop(v.set, count, policy)
           IN IF ~IsSortedSet(v)
              THEN Return(p, Err("value is not a sorted set"), KindChecked(Got(p, key), p, key),
                          store, wlock, rlock)
              ELSE Return(p, MembersReply(popped, TRUE), [Got(p, key) EXCEPT !.wrote = TRUE],
                          [store EXCEPT ![key] = SortedSetValue(v.set \ popped)], wlock, rlock)

\* ZMPOP key [key ...] <MIN | MAX> [COUNT count]
handleZMPOP(p) ==
  LET keys == cmd[p].keys
      policy == IF cmd[p].opts = <<>> THEN "min" ELSE cmd[p].opts[1]
      count == IF cmd[p].ints = <<>> THEN 1 ELSE cmd[p].ints[1]
      i == loc[p].i
  IN
  /\ Running(p, {"zmpop"})
  /\ \/ /\ pc[p] = "start"
        /\ IF ~cmd[p].intsOk
           THEN Return(p, Err("strconv.Atoi: invalid syntax"), trace[p], store, wlock, rlock)
           ELSE IF count <= 0
           THEN Return(p, Err("count must be a positive integer"), trace[p], store, wlock, rlock)
           ELSE Step(p, "loop", [loc[p] EXCEPT !.i = 1], trace[p], store, wlock, rlock)
     \/ /\ pc[p] = "loop"
        /\ IF i > Len(keys)
           THEN Return(p, ArrayReply(<<>>), trace[p], store, wlock, rlock)
           ELSE IF KeyExists(keys[i])
           THEN Step(p, "locki", loc[p], trace[p], store, wlock, rlock)
           ELSE Step(p, "loop", [loc[p] EXCEPT !.i = i + 1], trace[p], store, wlock, rlock)
     \/ /\ pc[p] = "locki"
        /\ KeyLockReady(p, keys[i])
        /\ IF LockFails(p, keys[i])
           THEN Step(p, "loop", [loc[p] EXCEPT !.i = i + 1], Locked(p, keys[i]),
                     store, wlock, rlock)
           ELSE Step(p, "geti", loc[p], Locked(p, keys[i]), store, KeyLock(p, keys[i]), rlock)
     \/ /\ pc[p] = "geti"
        /\ LET v == GetValue(keys[i])
               popped == Pop(v.set, count, policy)
           IN IF ~IsSortedSet(v) \/ Cardinality(v.set) = 0
              THEN Step(p, "unlocki", loc[p], Got(p, keys[i]), store, wlock, rlock)
              ELSE Step(p, "unlock", [loc[p] EXCEPT !.val = SortedSetValue(popped)],
                        Wrote(p, keys[i]),
                        [store EXCEPT ![keys[i]] = SortedSetValue(v.set \ popped)],
                        wlock, rlock)
     \/ /\ pc[p] = "unlocki"
        /\ Step(p, "loop", [loc[p] EXCEPT !.i = i + 1], Unlocked(p, keys[i]), store,
                KeyUnlock(p, keys[i]), rlock)
     \/ /\ pc[p] = "unlock"
        /\ Return(p, MembersReply(loc[p].val.set, TRUE), Unlocked(p, keys[i]), store,
                  KeyUnlock(p, keys[i]), rlock)

\* ZREMRANGEBYSCORE key min max
handleZREMRANGEBYSCORE(p) ==
  LET key == cmd[p].keys[1]
      minimum == cmd[p].ints[1]
      maximum == cmd[p].ints[2]
  IN
  /\ Running(p, {"zremrangebyscore"})
  /\ \/ /\ pc[p] = "start"
        /\ IF ~cmd[p].intsOk
           THEN Return(p, Err("strconv.ParseFloat: invalid syntax"), trace[p],
                       store, wlock, rlock)
           ELSE IF ~KeyExists(key)
           THEN Return(p, IntReply(0), trace[p], store, wlock, rlock)
           ELSE Step(p, "lock", loc[p], trace[p], store, wlock, rlock)
     \/ /\ pc[p] = "lock"
        /\ KeyLockReady(p, key)
        /\ IF LockFails(p, key)
           THEN Return(p, Err("key lock"), Locked(p, key), store, wlock, rlock)
           ELSE Step(p, "get", Defer(p, "KeyUnlock", key), Locked(p, key), store,
                     KeyLock(p, key), rlock)
     \/ /\ pc[p] = "get"
        /\ LET v == GetValue(key)
               removed == {m \in v.set : m.score >= minimum /\ m.score <= maximum}
           IN IF ~IsSortedSet(v)
              THEN Return(p, Err("value is not a sorted set"), KindChecked(Got(p, key), p, key),
                          store, wlock, rlock)
              ELSE Return(p, IntReply(Cardinality(removed)), [Got(p, key) EXCEPT !.wrote = TRUE],
                          [store EXCEPT ![key] = SortedSetValue(v.set \ removed)],
                          wlock, rlock)

\* The orders slices.SortFunc may leave the members in: any order with the
\* scores ascending (the sort is not stable, members of equal score come in
\* any order).
ByScore(S) ==
  {s \in [1..Cardinality(S) -> S] :
     /\ \A i, j \in 1..Cardinality(S) : i < j => s[i].score <= s[j].score
     /\ \A i, j \in 1..Cardinality(S) : i # j => s[i] # s[j]}

\* ZREMRANGEBYRANK key start stop
handleZREMRANGEBYRANK(p) ==
  LET key == cmd[p].keys[1] IN
  /\ Running(p, {"zremrangebyrank"})
  /\ \/ /\ pc[p] = "start"
        /\ IF ~cmd[p].intsOk
           THEN Return(p, Err("strconv.Atoi: invalid syntax"), trace[p], store, wlock, rlock)
           ELSE IF ~KeyExists(key)
           THEN Return(p, IntReply(0), trace[p], store, wlock, rlock)
           ELSE Step(p, "lock", loc[p], trace[p], store, wlock, rlock)
     \/ /\ pc[p] = "lock"
        /\ KeyLockReady(p, key)
        /\ IF LockFails(p, key)
           THEN Return(p, Err("key lock"), Locked(p, key), store, wlock, rlock)
           ELSE Step(p, "get", Defer(p, "KeyUnlock", key), Locked(p, key), store,
                     KeyLock(p, key), rlock)
     \/ /\ pc[p] = "get"
        /\ LET v == GetValue(key)
               n == Cardinality(v.set)
               start == IF cmd[p].ints[1] < 0 THEN cmd[p].ints[1] + n ELSE cmd[p].ints[1]
               stop == IF cmd[p].ints[2] < 0 THEN cmd[p].ints[2] + n ELSE cmd[p].ints[2]
               lo == IF start < stop THEN start ELSE stop
               hi == IF start < stop THEN stop ELSE start
           IN IF ~IsSortedSet(v)
              THEN Return(p, Err("value is not a sorted set"), KindChecked(Got(p, key), p, key),
                          store, wlock, rlock)
              ELSE IF start < 0 \/ start > n - 1 \/ stop < 0 \/ stop > n - 1
              THEN Return(p, Err("indices out of bounds"), Got(p, key), store, wlock, rlock)
              ELSE \E members \in ByScore(v.set) :
                     LET removed == {members[j + 1] : j \in lo..hi} IN
                     Return(p, IntReply(hi - lo + 1), [Got(p, key) EXCEPT !.wrote = TRUE],
                            [store EXCEPT ![key] = SortedSetValue(v.set \ removed)],
                            wlock, rlock)

\* ZREMRANGEBYLEX key min max
handleZREMRANGEBYLEX(p) ==
  LET key == cmd[p].keys[1]
      minimum == cmd[p].strs[1]
      maximum == cmd[p].strs[2]
  IN
  /\ Running(p, {"zremrangebylex"})
  /\ \/ /\ pc[p] = "start"
        /\ IF ~KeyExists(key)
           THEN Return(p, IntReply(0), trace[p], store, wlock, rlock)
           ELSE Step(p, "lock", loc[p], trace[p], store, wlock, rlock)
     \/ /\ pc[p] = "lock"
        /\ KeyLockReady(p, key)
        /\ IF LockFails(p, key)
           THEN Return(p, Err("key lock"), Locked(p, key), store, wlock, rlock)
           ELSE Step(p, "get", Defer(p, "KeyUnlock", key), Locked(p, key), store,
                     KeyLock(p, key), rlock)
     \/ /\ pc[p] = "get"
        /\ LET v == GetValue(key)
               removed == {m \in v.set : /\ CompareLex(m.value, minimum) \in {1, 0}
                                         /\ CompareLex(m.value, maximum) \in {-1, 0}}
           IN IF ~IsSortedSet(v)
              THEN Return(p, Err("value is not a sorted set"), KindChecked(Got(p, key), p, key),
                          store, wlock, rlock)
              ELSE IF \E m1, m2 \in v.set : m1.score # m2.score
              THEN Return(p, IntReply(0), Got(p, key), store, wlock, rlock)
              ELSE Return(p, IntReply(Cardinality(removed)), [Got(p, key) EXCEPT !.wrote = TRUE],
                          [store EXCEPT ![key] = SortedSetValue(v.set \ removed)],
                          wlock, rlock)

\* ------------------------- the sorted-set writes, one client, in sequence
ZSetCommands ==
  {OptCommand("zadd", <<"a">>, <<>>, <<1>>, <<"m">>, TRUE),
   OptCommand("zadd", <<"a">>, <<>>, <<2>>, <<"n">>, TRUE),
   OptCommand("zadd", <<"a">>, <<>>, <<3, 2>>, <<"m", "o">>, TRUE),
   OptCommand("zadd", <<"a">>, <<>>, <<1, 2>>, <<"n", "n">>, TRUE),
   OptCommand("zadd", <<"b">>, <<>>, <<1>>, <<"m">>, TRUE),
   Command("zincrby", <<"a">>, <<1>>, <<"m">>, TRUE),
   Command("zincrby", <<"a">>, <<2>>, <<"o">>, TRUE),
   Command("zincrby", <<"b">>, <<1>>, <<"n">>, FALSE),
   Command("zrem", <<"a">>, <<>>, <<"m">>, TRUE),
   Command("zrem", <<"a">>, <<>>, <<"n", "o", "n">>, TRUE),
   Command("zpopmin", <<"a">>, <<>>, <<>>, TRUE),
   Command("zpopmax", <<"a">>, <<2>>, <<>>, TRUE),
   Command("zpopmin", <<"b">>, <<0>>, <<>>, FALSE),
   OptCommand("zmpop", <<"b", "a">>, <<>>, <<>>, <<>>, TRUE),
   OptCommand("zmpop", <<"a">>, <<"max">>, <<2>>, <<>>, TRUE),
   OptCommand("zmpop", <<"a">>, <<"min">>, <<0>>, <<>>, TRUE),
   Command("zremrangebyscore", <<"a">>, <<1, 1>>, <<>>, TRUE),
   Command("zremrangebyscore", <<"a">>, <<2, 3>>, <<>>, TRUE),
   Command("zremrangebyscore", <<"b">>, <<0, 0>>, <<>>, FALSE),
   Command("zremrangebyrank", <<"a">>, <<0, 0>>, <<>>, TRUE),
   Command("zremrangebyrank", <<"a">>, <<1, -1>>, <<>>, TRUE),
   Command("zremrangebyrank", <<"a">>, <<1, 0>>, <<>>, TRUE),
   Command("zremrangebyrank", <<"b">>, <<0, 0>>, <<>>, FALSE),
   Command("zremrangebylex", <<"a">>, <<>>, <<"m", "n">>, TRUE),
   Command("zremrangebylex", <<"b">>, <<>>, <<"n", "o">>, TRUE),
   Command("zcard", <<"a">>, <<>>, <<>>, TRUE),
   Command("zcard", <<"b">>, <<>>, <<>>, TRUE)}

\* The key whose members a command adds or removes: for ZMPOP the first
\* key that held a non-empty sorted set, otherwise the command's key.
WrittenKey(c, before) ==
  IF c.name = "zmpop" /\ \E i \in 1..Len(c.keys) :
                           IsSortedSet(before[c.keys[i]]) /\ before[c.keys[i]].set # {}
  THEN c.keys[CHOOSE i \in 1..Len(c.keys) :
                /\ IsSortedSet(before[c.keys[i]]) /\ before[c.keys[i]].set # {}
                /\ \A j \in 1..(i - 1) :
                     ~(IsSortedSet(before[c.keys[j]]) /\ before[c.keys[j]].set # {})]
  ELSE c.keys[1]

\* The number of members the reply of a command reports as added (positive)
\* or removed (negative); ZINCRBY, whose reply is a score, adds one when its
\* member was not in the set and is in it now.
Reported(c, rp, before, after) ==
  IF rp.kind \in {"err", "none", "panic"} THEN 0
  ELSE IF c.name = "zadd" THEN rp.n
  ELSE IF c.name \in {"zrem", "zpopmin", "zpopmax", "zmpop", "zremrangebyscore",
                      "zremrangebyrank", "zremrangebylex"} THEN -rp.n
  ELSE IF c.name = "zincrby"
  THEN IF Contains(after[c.keys[1]].set, c.strs[1])
          /\ ~Contains(before[c.keys[1]].set, c.strs[1]) THEN 1 ELSE 0
  ELSE 0

\* The counts after the command client p has run.
Live(p) ==
  IF cmd[p] = NoCommand THEN trace[p].live
  ELSE [trace[p].live EXCEPT ![WrittenKey(cmd[p], trace[p].before)] =
          @ + Reported(cmd[p], reply[p], trace[p].before, store)]

ZSetValues == {Absent, SortedSetValue({MemberParam("m", 1)}),
               SortedSetValue({MemberParam("m", 1), MemberParam("n", 1)}),
               StringValue(<<"s">>)}

InitZSet ==
  /\ store \in [Keys -> ZSetValues]
  /\ wlock = [k \in Keys |-> NoProc]
  /\ rlock = [k \in Keys |-> [p \in Procs |-> 0]]
  /\ pc = [p \in Procs |-> "idle"]
  /\ cmd = [p \in Procs |-> NoCommand]
  /\ loc = [p \in Procs |-> NoLocals]
  /\ reply = [p \in Procs |-> NoReply]
  /\ cancelled = [p \in Procs |-> FALSE]
  /\ trace = [p \in Procs |->
                [NoTrace EXCEPT !.live = [k \in Keys |-> Cardinality(store[k].set)]]]
  /\ served = [p \in Procs |-> 0]

NextZSet ==
  \/ \E c \in ZSetCommands : Dispatch(1, c, MaxZCmds, [NoTrace EXCEPT !.live = Live(1)])
  \/ RunDeferred(1)
  \/ handleZADD(1)
  \/ handleZINCRBY(1)
  \/ handleZREM(1)
  \/ handleZPOP(1)
  \/ handleZMPOP(1)
  \/ handleZREMRANGEBYSCORE(1)
  \/ handleZREMRANGEBYRANK(1)
  \/ handleZREMRANGEBYLEX(1)
  \/ handleZCARD(1)

SpecZSet == InitZSet /\ [][NextZSet]_vars

\* --------------------------------- sorted-set module: the ordered reads
\* math.Inf(1) and math.Inf(-1): scores above and below every other score.
PosInf == 1000
NegInf == 0 - PosInf

\* set.GetAll(): the members as a slice, in an order the set does not fix.
GetAll(S) ==
  {s \in [1..Cardinality(S) -> S] : \A i, j \in 1..Cardinality(S) : i # j => s[i] # s[j]}

\* slices.SortFunc with a comparison of the scores only: the members with
\* their scores ascending (descending when reverse); members of equal score
\* stay in the order GetAll gave them, which is any order.
SortByScore(S, reverse) ==
  {s \in GetAll(S) :
     \A i, j \in 1..Cardinality(S) :
       i < j => IF reverse THEN s[i].score >= s[j].score ELSE s[i].score <= s[j].score}

\* slices.SortFunc with CompareLex on the values.
SortByLex(S, reverse) ==
  {s \in GetAll(S) :
     \A i, j \in 1..Cardinality(S) :
       i < j => IF reverse THEN CompareLex(s[j].value, s[i].value) < 0
                ELSE CompareLex(s[i].value, s[j].value) < 0}

\* The options of ZRANGE and ZRANGESTORE, from the tokens after start and stop.
zrangePolicy(c) == IF \E i \in 1..Len(c.opts) : c.opts[i] = "bylex" THEN "bylex" ELSE "byscore"
zrangeReverse(c) == \E i \in 1..Len(c.opts) : c.opts[i] = "rev"
zrangeWithscores(c) == \E i \in 1..Len(c.opts) : c.opts[i] = "withscores"
zrangeLimit(c) == \E i \in 1..Len(c.opts) : c.opts[i] = "limit"
zrangeOffset(c) == IF zrangeLimit(c) THEN c.ints[3] ELSE 0
zrangeCount(c) == IF zrangeLimit(c) THEN c.ints[4] ELSE -1

\* The orders the members are in after the sort of ZRANGE; none when the
\* policy is bylex and two members differ in score.
zrangeSorted(S, policy, reverse) ==
  IF policy = "byscore" THEN SortByScore(S, reverse)
  ELSE IF \E m1, m2 \in S : m1.score # m2.score THEN {}
  ELSE SortByLex(S, reverse)

\* Whether a member lies within the bounds of the command.
zrangeInBounds(c, m) ==
  IF zrangePolicy(c) = "byscore"
  THEN m.score >= c.ints[1] /\ m.score <= c.ints[2]
  ELSE /\ CompareLex(m.value, c.strs[1]) \in {1, 0}
       /\ CompareLex(m.value, c.strs[2]) \in {-1, 0}

\* The loop "for i := offset; i <= count; i++" over the sorted members.
zrangeLastIndex(offset, count) == count

zrangeResult(c, members, offset, count) ==
  LET indexes == [i \in 1..Len(members) |-> i - 1]
      kept == SelectSeq(indexes,
                LAMBDA i : /\ i >= offset
                           /\ i <= zrangeLastIndex(offset, count)
                           /\ zrangeInBounds(c, members[i + 1]))
  IN [j \in 1..Len(kept) |-> members[kept[j] + 1]]

\* The reply that lists the records of a sequence.
RecordsReply(records, withscores) ==
  ArrayReply([i \in 1..Len(records) |->
                IF withscores THEN records[i] ELSE MemberParam(records[i].value, 0)])

\* ZRANGE key start stop [BYSCORE | BYLEX] [REV] [LIMIT offset count] [WITHSCORES]
handleZRANGE(p) ==
  LET key == cmd[p].keys[1]
      policy == zrangePolicy(cmd[p])
      reverse == zrangeReverse(cmd[p])
      offset == zrangeOffset(cmd[p])
  IN
  /\ Running(p, {"zrange"})
  /\ \/ /\ pc[p] = "start"
        /\ IF ~cmd[p].intsOk
           THEN Return(p, Err("strconv: invalid syntax"), trace[p], store, wlock, rlock)
           ELSE IF offset < 0
           THEN Return(p, Err("limit offset must be >= 0"), trace[p], store, wlock, rlock)
           ELSE IF ~KeyExists(key)
           THEN Return(p, ArrayReply(<<>>), trace[p], store, wlock, rlock)
           ELSE Step(p, "rlock", loc[p], trace[p], store, wlock, rlock)
     \/ /\ pc[p] = "rlock"
        /\ KeyRLockReady(p, key)
        /\ IF LockFails(p, key)
           THEN Return(p, Err("key lock"), Locked(p, key), store, wlock, rlock)
           ELSE Step(p, "get", Defer(p, "KeyRUnlock", key), Locked(p, key), store, wlock,
                     KeyRLock(p, key))
     \/ /\ pc[p] = "get"
        /\ LET v == GetValue(key)
               count == IF zrangeCount(cmd[p]) < 0 THEN Cardinality(v.set) - offset
                        ELSE zrangeCount(cmd[p])
               sorted == zrangeSorted(v.set, policy, reverse)
           IN IF ~IsSortedSet(v)
              THEN Return(p, Err("value is not a sorted set"), Got(p, key), store, wlock, rlock)
              ELSE IF offset > Cardinality(v.set) \/ sorted = {}
              THEN Return(p, ArrayReply(<<>>), Got(p, key), store, wlock, rlock)
              ELSE \E members \in sorted :
                     Return(p, RecordsReply(zrangeResult(cmd[p], members, offset, count),
                                            zrangeWithscores(cmd[p])),
                            Got(p, key), store, wlock, rlock)

\* ZRANGESTORE destination source start stop [BYSCORE | BYLEX] [REV]
\* [LIMIT offset count]
handleZRANGESTORE(p) ==
  LET destination == cmd[p].keys[1]
      source == cmd[p].keys[2]
      policy == zrangePolicy(cmd[p])
      reverse == zrangeReverse(cmd[p])
      offset == zrangeOffset(cmd[p])
  IN
  /\ Running(p, {"zrangestore"})
  /\ \/ /\ pc[p] = "start"
        /\ IF ~cmd[p].intsOk
           THEN Return(p, Err("strconv: invalid syntax"), trace[p], store, wlock, rlock)
           ELSE IF offset < 0
           THEN Return(p, Err("limit offset must be >= 0"), trace[p], store, wlock, rlock)
           ELSE IF ~KeyExists(source)
           THEN Return(p, ArrayReply(<<>>), trace[p], store, wlock, rlock)
           ELSE Step(p, "rlock", loc[p], trace[p], store, wlock, rlock)
     \/ /\ pc[p] = "rlock"
        /\ KeyRLockReady(p, source)
        /\ IF LockFails(p, source)
           THEN Return(p, Err("key lock"), Locked(p, source), store, wlock, rlock)
           ELSE Step(p, "get", Defer(p, "KeyRUnlock", source), Locked(p, source), store,
                     wlock, KeyRLock(p, source))
     \/ /\ pc[p] = "get"
        /\ LET v == GetValue(source)
               count == IF zrangeCount(cmd[p]) < 0 THEN Cardinality(v.set) - offset
                        ELSE zrangeCount(cmd[p])
               sorted == zrangeSorted(v.set, policy, reverse)
           IN IF ~IsSortedSet(v)
              THEN Return(p, Err("value is not a sorted set"), Got(p, source),
                          store, wlock, rlock)
              ELSE IF offset > Cardinality(v.set) \/ sorted = {}
              THEN Return(p, IntReply(0), Got(p, source), store, wlock, rlock)
              ELSE \E members \in sorted :
                     LET newSortedSet ==
                           NewSortedSet(zrangeResult(cmd[p], members, offset, count))
                     IN Step(p, IF KeyExists(destination) THEN "lock2" ELSE "create",
                             [loc[p] EXCEPT !.val = SortedSetValue(newSortedSet)],
                             Got(p, source), store, wlock, rlock)
     \/ /\ pc[p] = "lock2"
        /\ KeyLockReady(p, destination)
        /\ IF LockFails(p, destination)
           THEN Return(p, Err("key lock"), Locked(p, destination), store, wlock, rlock)
           ELSE Step(p, "set", Defer(p, "KeyUnlock", destination), Locked(p, destination),
                     store, KeyLock(p, destination), rlock)
     \/ /\ pc[p] = "create"
        /\ IF CreateFails(p, destination)
           THEN Return(p, Err("key create"), Created(p, destination), store, wlock, rlock)
           ELSE Step(p, "set", Defer(p, "KeyUnlock", destination), Created(p, destination),
                     CreatedStore(p, destination), CreateKeyAndLock(p, destination), rlock)
     \/ /\ pc[p] = "set"
        /\ Return(p, IntReply(Cardinality(loc[p].val.set)), Wrote(p, destination),
                  SetValue(destination, loc[p].val), wlock, rlock)

\* ZRANK key member [WITHSCORE] / ZREVRANK key member [WITHSCORE]
handleZRANK(p) ==
  LET key == cmd[p].keys[1]
      member == cmd[p].strs[1]
      withscores == cmd[p].opts = <<"withscores">>
  IN
  /\ Running(p, {"zrank", "zrevrank"})
  /\ \/ /\ pc[p] = "start"
        /\ IF ~KeyExists(key)
           THEN Return(p, NilReply, trace[p], store, wlock, rlock)
           ELSE Step(p, "rlock", loc[p], trace[p], store, wlock, rlock)
     \/ /\ pc[p] = "rlock"
        /\ KeyRLockReady(p, key)
        /\ IF LockFails(p, key)
           THEN Return(p, Err("key lock"), Locked(p, key), store, wlock, rlock)
           ELSE Step(p, "get", Defer(p, "KeyRUnlock", key), Locked(p, key), store, wlock,
                     KeyRLock(p, key))
     \/ /\ pc[p] = "get"
        /\ LET v == GetValue(key) IN
           IF ~IsSortedSet(v)
           THEN Return(p, Err("value is not a sorted set"), Got(p, key), store, wlock, rlock)
           ELSE IF ~Contains(v.set, member)
           THEN Return(p, NilReply, Got(p, key), store, wlock, rlock)
           ELSE \E members \in SortByScore(v.set, cmd[p].name = "zrevrank") :
                  LET i == CHOOSE i \in 0..(Len(members) - 1) : members[i + 1].value = member
                  IN Return(p, IF withscores THEN ArrayReply(<<i, members[i + 1].score>>)
                               ELSE ArrayReply(<<i>>),
                            Got(p, key), store, wlock, rlock)

\* The check of ZLEXCOUNT that all members have the same score:
\* "for i := 0; i < len(members)-2; i++" compares members[i] with members[i+1].
zlexcountSameScore(members) ==
  \A i \in 0..(Len(members) - 3) : members[i + 1].score = members[i + 2].score

\* ZLEXCOUNT key min max
handleZLEXCOUNT(p) ==
  LET key == cmd[p].keys[1]
      minimum == cmd[p].strs[1]
      maximum == cmd[p].strs[2]
  IN
  /\ Running(p, {"zlexcount"})
  /\ \/ /\ pc[p] = "start"
        /\ IF ~KeyExists(key)
           THEN Return(p, IntReply(0), trace[p], store, wlock, rlock)
           ELSE Step(p, "rlock", loc[p], trace[p], store, wlock, rlock)
     \/ /\ pc[p] = "rlock"
        /\ KeyRLockReady(p, key)
        /\ IF LockFails(p, key)
           THEN Return(p, Err("key lock"), Locked(p, key), store, wlock, rlock)
           ELSE Step(p, "get", Defer(p, "KeyRUnlock", key), Locked(p, key), store, wlock,
                     KeyRLock(p, key))
     \/ /\ pc[p] = "get"
        /\ LET v == GetValue(key)
               count == Cardinality({m \in v.set :
                                       /\ CompareLex(m.value, minimum) \in {1, 0}
                                       /\ CompareLex(m.value, maximum) \in {-1, 0}})
           IN IF ~IsSortedSet(v)
              THEN Return(p, Err("value is not a sorted set"), Got(p, key), store, wlock, rlock)
              ELSE \E members \in GetAll(v.set) :
                     IF ~zlexcountSameScore(members)
                     THEN Return(p, IntReply(0), Got(p, key), store, wlock, rlock)
                     ELSE Return(p, IntReply(count), Got(p, key), store, wlock, rlock)

\* ------------------------------ the ordered reads, one client, in sequence
ZReadCommands ==
  {OptCommand("zrange", <<k>>, <<>>, <<NegInf, PosInf>>, <<"-inf", "+inf">>, TRUE) : k \in Keys}
  \cup {OptCommand("zrange", <<"a">>, o, <<lo, 2>>, <<"1", "2">>, TRUE) :
          o \in {<<"withscores">>, <<"rev">>}, lo \in {1, 2}}
  \cup {OptCommand("zrange", <<"a">>, <<"limit">>, <<NegInf, PosInf, offset, count>>,
                   <<"-inf", "+inf">>, TRUE) :
          offset \in -1..2, count \in -1..2}
  \cup {OptCommand("zrange", <<"a">>, <<"limit">>, <<2, 3, 0, 1>>, <<"2", "3">>, ok) :
          ok \in BOOLEAN}
  \cup {OptCommand("zrange", <<"b">>, <<"bylex">> \o o, <<>>, <<lo, "o">>, TRUE) :
          o \in {<<>>, <<"rev">>}, lo \in {"m", "n"}}
  \cup {OptCommand("zrangestore", <<d, "a">>, <<>>, <<NegInf, PosInf>>, <<"-inf", "+inf">>, TRUE) :
          d \in Keys}
  \cup {OptCommand("zrangestore", <<"b", "a">>, <<"limit">>, <<NegInf, PosInf, offset, count>>,
                   <<"-inf", "+inf">>, TRUE) :
          offset \in 0..1, count \in -1..1}
  \cup {OptCommand(n, <<k>>, o, <<>>, <<m>>, TRUE) :
          n \in {"zrank", "zrevrank"}, k \in Keys, o \in {<<>>, <<"withscores">>},
          m \in {"m", "n", "o"}}

ZReadValues ==
  {Absent, StringValue(<<"s">>),
   SortedSetValue({MemberParam("m", 1), MemberParam("n", 1)}),
   SortedSetValue({MemberParam("m", 1), MemberParam("n", 1), MemberParam("o", 1)}),
   SortedSetValue({MemberParam("m", 3), MemberParam("n", 2), MemberParam("o", 1)}),
   SortedSetValue({MemberParam("m", 1), MemberParam("n", 2)}),
   SortedSetValue({MemberParam("m", 2), MemberParam("n", 2), MemberParam("o", 1)})}

InitZRead == store \in [Keys -> ZReadValues] /\ InitClients

NextZRead ==
  \/ \E c \in ZReadCommands : Start(1, c)
  \/ Cancel(1)
  \/ RunDeferred(1)
  \/ handleZRANGE(1)
  \/ handleZRANGESTORE(1)
  \/ handleZRANK(1)

SpecZRead == InitZRead /\ [][NextZRead]_vars

\* ---------------------- the lexicographic ranges, one client, in sequence
\* The lower and the upper bounds of a lexicographic range.
LexMinimums == {"-", "[m", "(m", "[n", "m"}
LexMaximums == {"+", "[n", "(n", "[o", "o"}

ZLexCommands ==
  {Command("zlexcount", <<k>>, <<>>, <<lo, hi>>, TRUE) :
     k \in Keys, lo \in LexMinimums, hi \in LexMaximums}
  \cup {Command("zremrangebylex", <<"a">>, <<>>, <<lo, hi>>, TRUE) :
          lo \in LexMinimums, hi \in LexMaximums}

ZLexValues ==
  {Absent, StringValue(<<"s">>),
   SortedSetValue({MemberParam("m", 1), MemberParam("n", 1)}),
   SortedSetValue({MemberParam("m", 1), MemberParam("n", 1), MemberParam("o", 1)}),
   SortedSetValue({MemberParam("m", 1), MemberParam("n", 2)}),
   SortedSetValue({MemberParam("m", 1), MemberParam("n", 1), MemberParam("o", 2)}),
   SortedSetValue({MemberParam("m", 2), MemberParam("n", 1), MemberParam("o", 1)})}

InitZLex == store \in [Keys -> ZLexValues] /\ InitClients

NextZLex ==
  \/ \E c \in ZLexCommands : Start(1, c)
  \/ Cancel(1)
  \/ RunDeferred(1)
  \/ handleZLEXCOUNT(1)
  \/ handleZREMRANGEBYLEX(1)

SpecZLex == InitZLex /\ [][NextZLex]_vars

\* ------------------------- ZADD with options and ZINCRBY, one client
ZAddOptions ==
  {<<>>, <<"xx">>, <<"nx">>, <<"nx", "xx">>, <<"xx", "nx">>, <<"gt">>, <<"lt">>,
   <<"nx", "gt">>, <<"gt", "nx">>, <<"nx", "lt">>, <<"lt", "nx">>, <<"xx", "gt">>,
   <<"ch">>, <<"xx", "ch">>, <<"incr">>, <<"xx", "incr">>, <<"nx", "incr">>, <<"bad">>}

ZAddCommands ==
  {OptCommand("zadd", <<"a">>, o, <<2>>, <<"m">>, TRUE) : o \in ZAddOptions}
  \cup {OptCommand("zadd", <<"a">>, o, <<5>>, <<"n">>, TRUE) : o \in ZAddOptions}
  \cup {OptCommand("zadd", <<"a">>, o, <<0, 3>>, <<"m", "o">>, TRUE) : o \in ZAddOptions}
  \cup {OptCommand("zadd", <<"b">>, <<"incr">>, <<5>>, <<"m">>, ok) : ok \in BOOLEAN}
  \cup {Command("zincrby", <<k>>, <<d>>, <<m>>, TRUE) :
          k \in Keys, d \in {-1, 5}, m \in {"m", "n"}}
  \cup {Command("zincrby", <<"a">>, <<1>>, <<"m">>, FALSE)}

ZAddValues == {Absent, SortedSetValue({MemberParam("m", 1)}),
               SortedSetValue({MemberParam("m", 1), MemberParam("n", 2)}),
               StringValue(<<"s">>)}

InitZAdd == store \in [Keys -> ZAddValues] /\ InitClients

NextZAdd ==
  \/ \E c \in ZAddCommands : Start(1, c)
  \/ Cancel(1)
  \/ RunDeferred(1)
  \/ handleZADD(1)
  \/ handleZINCRBY(1)

SpecZAdd == InitZAdd /\ [][NextZAdd]_vars

\* ----------------------------------------------- ZUNIONSTORE, one client
\* sorted_set.Union(aggregate, params...): the values held by at least one
\* input, each with the aggregate of its weighted scores in the inputs that
\* hold it.
Union(aggregate, params) ==
  {MemberParam(v,
     IF aggregate = "sum" THEN SumScores(params, v)
     ELSE Aggregate(aggregate,
            {GetScore(params[i].set, v) * params[i].weight :
               i \in {i \in 1..Len(params) : Contains(params[i].set, v)}})) :
   v \in UNION {{m.value : m \in params[i].set} : i \in 1..Len(params)}}

\* slices.DeleteFunc(cmd, s == destination): every token equal to the
\* destination is removed from the command, the input keys among them.
zunionstoreKeys(c) == SelectSeq(Tail(c.keys), LAMBDA k : k # c.keys[1])

\* extractKeysWeightsAggregateWithScores: the weights of the keys, one for
\* each key when WEIGHTS is given, otherwise 1 for each key.
extractWeights(keys, weights) == IF weights = <<>> THEN [i \in 1..Len(keys) |-> 1] ELSE weights
extractError(keys, weights) == keys = <<>> \/ (weights # <<>> /\ Len(weights) # Len(keys))

\* ZUNIONSTORE destination key [key ...] [WEIGHTS weight [weight ...]]
\* [AGGREGATE <SUM | MIN | MAX>]
handleZUNIONSTORE(p) ==
  LET destination == cmd[p].keys[1]
      keys == zunionstoreKeys(cmd[p])
      weights == extractWeights(keys, cmd[p].ints)
      aggregate == cmd[p].opts[1]
      i == loc[p].i
      union == Union(aggregate, loc[p].sets)
  IN
  /\ Running(p, {"zunionstore"})
  /\ \/ /\ pc[p] = "start"
        /\ IF ~cmd[p].intsOk \/ extractError(keys, cmd[p].ints)
           THEN Return(p, Err("wrong keys or weights"), trace[p], store, wlock, rlock)
           ELSE Step(p, "loop", [Defer(p, "locks", "") EXCEPT !.i = 1], trace[p],
                     store, wlock, rlock)
     \/ /\ pc[p] = "loop"
        /\ IF i > Len(keys)
           THEN Step(p, IF KeyExists(destination) THEN "lock" ELSE "create", loc[p],
                     trace[p], store, wlock, rlock)
           ELSE IF KeyExists(keys[i])
           THEN Step(p, "rlocki", loc[p], trace[p], store, wlock, rlock)
           ELSE Step(p, "loop", [loc[p] EXCEPT !.i = i + 1], trace[p], store, wlock, rlock)
     \/ /\ pc[p] = "rlocki"
        /\ KeyRLockReady(p, keys[i])
        /\ IF LockFails(p, keys[i])
           THEN Return(p, Err("key lock"), Locked(p, keys[i]), store, wlock, rlock)
           ELSE Step(p, "geti", [loc[p] EXCEPT !.locks = @ \cup {keys[i]}],
                     Locked(p, keys[i]), store, wlock, KeyRLock(p, keys[i]))
     \/ /\ pc[p] = "geti"
        /\ LET v == GetValue(keys[i]) IN
           IF ~IsSortedSet(v)
           THEN Return(p, Err("value is not a sorted set"), Got(p, keys[i]),
                       store, wlock, rlock)
           ELSE Step(p, "loop",
                     [loc[p] EXCEPT !.i = i + 1,
                                    !.sets = Append(@, SortedSetParam(v.set, weights[i]))],
                     Got(p, keys[i]), store, wlock, rlock)
     \/ /\ pc[p] = "lock"
        /\ KeyLockReady(p, destination)
        /\ IF LockFails(p, destination)
           THEN Return(p, Err("key lock"), Locked(p, destination), store, wlock, rlock)
           ELSE Step(p, "set", Defer(p, "KeyUnlock", destination), Locked(p, destination),
                     store, KeyLock(p, destination), rlock)
     \/ /\ pc[p] = "create"
        /\ IF CreateFails(p, destination)
           THEN Return(p, Err("key create"), Created(p, destination), store, wlock, rlock)
           ELSE Step(p, "set", Defer(p, "KeyUnlock", destination), Created(p, destination),
                     CreatedStore(p, destination), CreateKeyAndLock(p, destination), rlock)
     \/ /\ pc[p] = "set"
        /\ Return(p, IntReply(Cardinality(union)), Wrote(p, destination),
                  SetValue(destination, SortedSetValue(union)), wlock, rlock)

ZUnionCommands ==
  {OptCommand("zunionstore", <<d, k>>, <<g>>, w, <<>>, TRUE) :
     d \in Keys, k \in Keys, g \in {"sum", "max"}, w \in {<<>>, <<2>>}}
  \cup {OptCommand("zunionstore", <<d, k1, k2>>, <<g>>, w, <<>>, TRUE) :
          d \in Keys, k1 \in Keys, k2 \in Keys, g \in {"sum", "min", "max"},
          w \in {<<>>, <<2, 3>>, <<2>>}}
  \cup {OptCommand("zunionstore", <<"a", "b">>, <<"sum">>, <<0>>, <<>>, FALSE)}

ZUnionValues == {Absent, SortedSetValue({MemberParam("m", 1), MemberParam("n", 2)}),
                 SortedSetValue({MemberParam("n", 3), MemberParam("o", 4)}),
                 ListValue(<<"x">>)}

InitZUnion == store \in [Keys -> ZUnionValues] /\ InitClients

NextZUnion ==
  \/ \E c \in ZUnionCommands : Start(1, c)
  \/ Cancel(1)
  \/ RunDeferred(1)
  \/ handleZUNIONSTORE(1)

SpecZUnion == InitZUnion /\ [][NextZUnion]_vars

\* ----------------------------------------------- ZINTERSTORE, one client
\* ZINTERSTORE destination key [key ...] [WEIGHTS weight [weight ...]]
\* [AGGREGATE <SUM | MIN | MAX>]
handleZINTERSTORE(p) ==
  LET destination == cmd[p].keys[1]
      keys == zunionstoreKeys(cmd[p])
      weights == extractWeights(keys, cmd[p].ints)
      aggregate == cmd[p].opts[1]
      i == loc[p].i
      intersect == Intersect(aggregate, loc[p].sets)
  IN
  /\ Running(p, {"zinterstore"})
  /\ \/ /\ pc[p] = "start"
        /\ IF ~cmd[p].intsOk \/ extractError(keys, cmd[p].ints)
           THEN Return(p, Err("wrong keys or weights"), trace[p], store, wlock, rlock)
           ELSE Step(p, "loop", [Defer(p, "locks", "") EXCEPT !.i = 1], trace[p],
                     store, wlock, rlock)
     \/ /\ pc[p] = "loop"
        /\ IF i > Len(keys)
           THEN IF Cardinality(intersect) > 0
                THEN Step(p, IF KeyExists(destination) THEN "lock" ELSE "create", loc[p],
                          trace[p], store, wlock, rlock)
                ELSE Step(p, "set", Defer(p, "KeyUnlock", destination), trace[p],
                          store, wlock, rlock)
           ELSE IF ~KeyExists(keys[i])
           THEN Return(p, IntReply(0), trace[p], store, wlock, rlock)
           ELSE Step(p, "rlocki", loc[p], trace[p], store, wlock, rlock)
     \/ /\ pc[p] = "rlocki"
        /\ KeyRLockReady(p, keys[i])
        /\ IF LockFails(p, keys[i])
           THEN Return(p, Err("key lock"), Locked(p, keys[i]), store, wlock, rlock)
           ELSE Step(p, "geti", [loc[p] EXCEPT !.locks = @ \cup {keys[i]}],
                     Locked(p, keys[i]), store, wlock, KeyRLock(p, keys[i]))
     \/ /\ pc[p] = "geti"
        /\ LET v == GetValue(keys[i]) IN
           IF ~IsSortedSet(v)
           THEN Return(p, Err("value is not a sorted set"), Got(p, keys[i]),
                       store, wlock, rlock)
           ELSE Step(p, "loop",
                     [loc[p] EXCEPT !.i = i + 1,
                                    !.sets = Append(@, SortedSetParam(v.set, weights[i]))],
                     Got(p, keys[i]), store, wlock, rlock)
     \/ /\ pc[p] = "lock"
        /\ KeyLockReady(p, destination)
        /\ IF LockFails(p, destination)
           THEN Return(p, Err("key lock"), Locked(p, destination), store, wlock, rlock)
           ELSE Step(p, "set", Defer(p, "KeyUnlock", destination), Locked(p, destination),
                     store, KeyLock(p, destination), rlock)
     \/ /\ pc[p] = "create"
        /\ IF CreateFails(p, destination)
           THEN Return(p, Err("key create"), Created(p, destination), store, wlock, rlock)
           ELSE Step(p, "set", Defer(p, "KeyUnlock", destination), Created(p, destination),
                     CreatedStore(p, destination), CreateKeyAndLock(p, destination), rlock)
     \/ /\ pc[p] = "set"
        /\ Return(p, IntReply(Cardinality(intersect)), Wrote(p, destination),
                  SetValue(destination, SortedSetValue(intersect)), wlock, rlock)

ZInterStoreCommands ==
  {OptCommand("zinterstore", <<d, k>>, <<g>>, w, <<>>, TRUE) :
     d \in Keys, k \in Keys, g \in {"sum", "max"}, w \in {<<>>, <<2>>}}
  \cup {OptCommand("zinterstore", <<d, k1, k2>>, <<g>>, w, <<>>, TRUE) :
          d \in Keys, k1 \in Keys, k2 \in Keys, g \in {"sum", "min", "max"},
          w \in {<<>>, <<2, 3>>, <<2>>}}
  \cup {OptCommand("zinterstore", <<"a", "b">>, <<"sum">>, <<0>>, <<>>, FALSE)}

NextZInterStore ==
  \/ \E c \in ZInterStoreCommands : Start(1, c)
  \/ Cancel(1)
  \/ RunDeferred(1)
  \/ handleZINTERSTORE(1)

SpecZInterStore == InitZUnion /\ [][NextZInterStore]_vars

\* ------------------------------------------- the hash module, one client
\* The elements of an array reply: a bulk string, an integer, the nil bulk.
BulkString(s) == [kind |-> "bulk", s |-> s, n |-> 0]
Integer(n) == [kind |-> "int", s |-> "", n |-> n]
NilBulk == [kind |-> "nil", s |-> "", n |-> 0]

HashGet(hash, f) == (CHOOSE e \in hash : e.field = f).value

\* The element that carries a hash value: "$len\r\ns" for a string and a
\* float64, ":d" for an int.
ValueElement(value) ==
  IF value.type = "string" THEN BulkString(value.str)
  ELSE IF value.type = "int" THEN Integer(value.num)
  ELSE BulkString(FormatFloat(value.num))

RECURSIVE hgetElements(_, _)
hgetElements(hash, fields) ==
  IF fields = <<>> THEN <<>>
  ELSE <<IF HasField(hash, Head(fields)) THEN ValueElement(HashGet(hash, Head(fields)))
         ELSE NilBulk>> \o hgetElements(hash, Tail(fields))

\* HGET key field [field ...]
handleHGET(p) ==
  LET key == cmd[p].keys[1]
      fields == cmd[p].strs
  IN
  /\ Running(p, {"hget"})
  /\ \/ /\ pc[p] = "start"
        /\ IF ~KeyExists(key)
           THEN Return(p, NilReply, trace[p], store, wlock, rlock)
           ELSE Step(p, "rlock", loc[p], trace[p], store, wlock, rlock)
     \/ /\ pc[p] = "rlock"
        /\ KeyRLockReady(p, key)
        /\ IF LockFails(p, key)
           THEN Return(p, Err("key lock"), Locked(p, key), store, wlock, rlock)
           ELSE Step(p, "get", Defer(p, "KeyRUnlock", key), Locked(p, key), store,
                     wlock, KeyRLock(p, key))
     \/ /\ pc[p] = "get"
        /\ LET v == GetValue(key) IN
           IF ~IsHash(v)
           THEN Return(p, Err("value is not a hash"), KindChecked(Got(p, key), p, key),
                       store, wlock, rlock)
           ELSE Return(p, ArrayReply(hgetElements(v.hash, fields)), Got(p, key),
                       store, wlock, rlock)

\* The fields HDEL deletes one after the other; the count is the number of
\* fields that were in the hash when their turn came.
RECURSIVE hdelFrom(_, _)
hdelFrom(acc, fields) ==
  IF fields = <<>> THEN acc
  ELSE hdelFrom([hash |-> {e \in acc.hash : e.field # Head(fields)},
                 count |-> acc.count + IF HasField(acc.hash, Head(fields)) THEN 1 ELSE 0],
                Tail(fields))

\* HDEL key field [field ...]
handleHDEL(p) ==
  LET key == cmd[p].keys[1]
      fields == cmd[p].strs
  IN
  /\ Running(p, {"hdel"})
  /\ \/ /\ pc[p] = "start"
        /\ IF ~KeyExists(key)
           THEN Return(p, IntReply(0), trace[p], store, wlock, rlock)
           ELSE Step(p, "lock", loc[p], trace[p], store, wlock, rlock)
     \/ /\ pc[p] = "lock"
        /\ KeyLockReady(p, key)
        /\ IF LockFails(p, key)
           THEN Return(p, Err("key lock"), Locked(p, key), store, wlock, rlock)
           ELSE Step(p, "get", Defer(p, "KeyUnlock", key), Locked(p, key), store,
                     KeyLock(p, key), rlock)
     \/ /\ pc[p] = "get"
        /\ LET v == GetValue(key)
               r == hdelFrom([hash |-> v.hash, count |-> 0], fields)
           IN IF ~IsHash(v)
              THEN Return(p, Err("value is not a hash"), KindChecked(Got(p, key), p, key),
                          store, wlock, rlock)
              ELSE Return(p, IntReply(r.count), [Got(p, key) EXCEPT !.wrote = TRUE],
                          SetValue(key, HashValue(r.hash)), wlock, rlock)

\* The variant in which every value passes for a number.
hincrbyIsNumber_any(value) == TRUE

\* The cases int and float64 of the type switch on the value of the field.
hincrbyIsNumber(value) == value.type \in {"int", "float64"}

\* The variant in which the increment replaces the number in the field.
hincrbyValue_overwrite(value, float, increment) ==
  IF float THEN FloatScalar(ParseFloat(increment)) ELSE IntScalar(Atoi(increment))

\* The value HINCRBY (float FALSE) or HINCRBYFLOAT (float TRUE) leaves in a
\* field that holds the number value: an int stays an int under an integer
\* increment, every other sum is a float64.
hincrbyValue(value, float, increment) ==
  IF value.type = "int"
  THEN IF float THEN FloatScalar(2 * value.num + ParseFloat(increment))
       ELSE IntScalar(value.num + Atoi(increment))
  ELSE IF float THEN FloatScalar(value.num + ParseFloat(increment))
       ELSE FloatScalar(value.num + 2 * Atoi(increment))

\* ":d" for an int, "+text" for a float64
hincrbyReply(value) ==
  IF value.type = "float64" THEN StrReply(FormatFloat(value.num)) ELSE IntReply(value.num)

\* HINCRBY key field increment / HINCRBYFLOAT key field increment
handleHINCRBY(p) ==
  LET key == cmd[p].keys[1]
      field == cmd[p].strs[1]
      increment == cmd[p].strs[2]
      float == cmd[p].name = "hincrbyfloat"
  IN
  /\ Running(p, {"hincrby", "hincrbyfloat"})
  /\ \/ /\ pc[p] = "start"
        /\ IF float /\ ~IsNumber(increment)
           THEN Return(p, Err("increment must be a float"), trace[p], store, wlock, rlock)
           ELSE IF ~float /\ ~AtoiOk(increment)
           THEN Return(p, Err("increment must be an integer"), trace[p], store, wlock, rlock)
           ELSE IF ~KeyExists(key)
           THEN Step(p, "create", loc[p], SawAbsent(trace[p]), store, wlock, rlock)
           ELSE Step(p, "lock", loc[p], trace[p], store, wlock, rlock)
     \/ /\ pc[p] = "create"
        /\ IF CreateFails(p, key)
           THEN Return(p, Err("key create"), Created(p, key), store, wlock, rlock)
           ELSE Step(p, "setnew", Defer(p, "KeyUnlock", key), Created(p, key),
                     CreatedStore(p, key), CreateKeyAndLock(p, key), rlock)
     \/ /\ pc[p] = "setnew"
        /\ LET value == IF float THEN FloatScalar(ParseFloat(increment))
                        ELSE IntScalar(Atoi(increment))
           IN Return(p, hincrbyReply(value), Wrote(p, key),
                     SetValue(key, HashValue(HashPut({}, field, value))), wlock, rlock)
     \/ /\ pc[p] = "lock"
        /\ KeyLockReady(p, key)
        /\ IF LockFails(p, key)
           THEN Return(p, Err("key lock"), Locked(p, key), store, wlock, rlock)
           ELSE Step(p, "get", Defer(p, "KeyUnlock", key), Locked(p, key), store,
                     KeyLock(p, key), rlock)
     \/ /\ pc[p] = "get"
        /\ LET v == GetValue(key)
               old == IF HasField(v.hash, field) THEN HashGet(v.hash, field) ELSE IntScalar(0)
               new == hincrbyValue(old, float, increment)
           IN IF ~IsHash(v)
              THEN Return(p, Err("value is not a hash"), KindChecked(Got(p, key), p, key),
                          store, wlock, rlock)
              ELSE IF ~hincrbyIsNumber(old)
              THEN Return(p, Err("value at field is not a number"), Got(p, key),
                          store, wlock, rlock)
              ELSE Return(p, hincrbyReply(new), [Got(p, key) EXCEPT !.wrote = TRUE],
                          SetValue(key, HashValue(HashPut(v.hash, field, new))), wlock, rlock)


\* The sequences of fields HRANDFIELD plucks in n draws of rand.Intn: any
\* field of fields at each draw; a positive count removes the drawn field
\* from fields before the next draw.
RECURSIVE pluckFields(_, _, _)
pluckFields(fields, count, n) ==
  IF n = 0 THEN {<<>>}
  ELSE UNION {{<<f>> \o rest :
                 rest \in pluckFields(IF count > 0 THEN fields \ {f} ELSE fields, count, n - 1)} :
              f \in fields}

\* The reply for the fields in the order given, each followed by its value
\* when withvalues is set.
RECURSIVE hrandfieldElements(_, _, _)
hrandfieldElements(hash, fields, withvalues) ==
  IF fields = <<>> THEN <<>>
  ELSE <<BulkString(Head(fields))>>
       \o (IF withvalues THEN <<ValueElement(HashGet(hash, Head(fields)))>> ELSE <<>>)
       \o hrandfieldElements(hash, Tail(fields), withvalues)

AbsInt(n) == IF n < 0 THEN 0 - n ELSE n

\* HRANDFIELD key [count [WITHVALUES]]
handleHRANDFIELD(p) ==
  LET key == cmd[p].keys[1]
      count == IF cmd[p].ints = <<>> THEN 1 ELSE cmd[p].ints[1]
      withvalues == cmd[p].opts = <<"withvalues">>
  IN
  /\ Running(p, {"hrandfield"})
  /\ \/ /\ pc[p] = "start"
        /\ IF ~cmd[p].intsOk
           THEN Return(p, Err("count must be an integer"), trace[p], store, wlock, rlock)
           ELSE IF count = 0
           THEN Return(p, ArrayReply(<<>>), trace[p], store, wlock, rlock)
           ELSE IF cmd[p].opts # <<>> /\ ~withvalues
           THEN Return(p, Err("result modifier must be withvalues"), trace[p],
                       store, wlock, rlock)
           ELSE IF ~KeyExists(key)
           THEN Return(p, ArrayReply(<<>>), trace[p], store, wlock, rlock)
           ELSE Step(p, "rlock", loc[p], trace[p], store, wlock, rlock)
     \/ /\ pc[p] = "rlock"
        /\ KeyRLockReady(p, key)
        /\ IF LockFails(p, key)
           THEN Return(p, Err("key lock"), Locked(p, key), store, wlock, rlock)
           ELSE Step(p, "get", Defer(p, "KeyRUnlock", key), Locked(p, key), store,
                     wlock, KeyRLock(p, key))
     \/ /\ pc[p] = "get"
        /\ LET v == GetValue(key)
               fields == {e.field : e \in v.hash}
               len == Cardinality(v.hash)
           IN IF ~IsHash(v)
              THEN Return(p, Err("value is not a hash"), KindChecked(Got(p, key), p, key),
                          store, wlock, rlock)
              ELSE IF count >= len
              THEN \E order \in pluckFields(fields, 1, len) :
                     Return(p, ArrayReply(hrandfieldElements(v.hash, order, withvalues)),
                            Got(p, key), store, wlock, rlock)
              ELSE IF len = 0
              THEN Return(p, Panic, Got(p, key), store, wlock, rlock)
              ELSE \E pluckedFields \in pluckFields(fields, count, AbsInt(count)) :
                     Return(p, ArrayReply(hrandfieldElements(v.hash, pluckedFields, withvalues)),
                            Got(p, key), store, wlock, rlock)

HashCommands ==
  {Command("hset", <<k>>, <<>>, <<"f", v>>, TRUE) :
     k \in Keys, v \in {"x", "1", "1.50", "02"}}
  \cup {Command("hsetnx", <<"a">>, <<>>, <<f, "y">>, TRUE) : f \in {"f", "g"}}
  \cup {Command("hsetnx", <<"b">>, <<>>, <<"f", "y">>, TRUE),
        Command("hset", <<"a">>, <<>>, <<"f", "x", "f", "2.0">>, TRUE),
        Command("hset", <<"a">>, <<>>, <<"f">>, TRUE)}
  \cup {Command("hget", <<k>>, <<>>, <<"f">>, TRUE) : k \in Keys}
  \cup {Command("hget", <<"a">>, <<>>, <<"g", "h">>, TRUE)}
  \cup {Command("hdel", <<"a">>, <<>>, fs, TRUE) : fs \in {<<"f">>, <<"g">>, <<"f", "g", "f">>}}
  \cup {Command("hincrby", <<k>>, <<>>, <<"f", d>>, TRUE) :
          k \in Keys, d \in {"1", "2", "-1", "1.5"}}
  \cup {Command("hincrbyfloat", <<"a">>, <<>>, <<f, d>>, TRUE) :
          f \in {"f", "g"}, d \in {"1", "1.5", "x"}}
  \cup {Command("hincrbyfloat", <<"b">>, <<>>, <<"f", "0.5">>, TRUE)}
  \cup {OptCommand("hrandfield", <<"a">>, o, c, <<>>, TRUE) :
          o \in {<<>>, <<"withvalues">>},
          c \in {<<>>, <<-2>>, <<-1>>, <<0>>, <<2>>, <<3>>}}
  \cup {OptCommand("hrandfield", <<"a">>, <<"bad">>, <<1>>, <<>>, TRUE),
        OptCommand("hrandfield", <<"b">>, <<>>, <<1>>, <<>>, FALSE)}

HashValues ==
  {Absent, ListValue(<<"x">>), HashValue({}),
   HashValue({[field |-> "f", value |-> StringScalar("x")]}),
   HashValue({[field |-> "f", value |-> IntScalar(1)],
              [field |-> "g", value |-> FloatScalar(3)]}),
   HashValue({[field |-> "f", value |-> StringScalar("x")],
              [field |-> "g", value |-> IntScalar(2)],
              [field |-> "h", value |-> StringScalar("y")]})}

InitHash ==
  /\ store \in [Keys -> HashValues]
  /\ store["b"] \in {Absent, HashValue({})}
  /\ InitClients

NextHash ==
  \/ \E c \in HashCommands : Start(1, c)
  \/ Cancel(1)
  \/ RunDeferred(1)
  \/ handleHSET(1)
  \/ handleHGET(1)
  \/ handleHDEL(1)
  \/ handleHINCRBY(1)
  \/ handleHRANDFIELD(1)

SpecHash == InitHash /\ [][NextHash]_vars


\* -------------------- the commands that remove from a hash or a sorted set
RemoveCommands ==
  {Command("hdel", <<k>>, <<>>, fs, TRUE) :
     k \in Keys, fs \in {<<"f">>, <<"g">>, <<"f", "g", "f">>}}
  \cup {Command("zrem", <<k>>, <<>>, ms, TRUE) :
          k \in Keys, ms \in {<<"m">>, <<"n", "m", "n">>}}
  \cup {Command("zpopmin", <<"a">>, <<>>, <<>>, TRUE),
        Command("zpopmax", <<"a">>, <<2>>, <<>>, TRUE),
        Command("zpopmin", <<"b">>, <<0>>, <<>>, FALSE),
        OptCommand("zmpop", <<"b", "a">>, <<>>, <<>>, <<>>, TRUE),
        OptCommand("zmpop", <<"a">>, <<"max">>, <<2>>, <<>>, TRUE),
        OptCommand("zmpop", <<"a">>, <<"min">>, <<0>>, <<>>, TRUE),
        Command("zremrangebyscore", <<"a">>, <<1, 1>>, <<>>, TRUE),
        Command("zremrangebyscore", <<"a">>, <<1, 2>>, <<>>, TRUE),
        Command("zremrangebyscore", <<"b">>, <<0, 0>>, <<>>, FALSE),
        Command("zremrangebyrank", <<"a">>, <<0, 0>>, <<>>, TRUE),
        Command("zremrangebyrank", <<"a">>, <<0, -1>>, <<>>, TRUE),
        Command("zremrangebyrank", <<"b">>, <<0, 0>>, <<>>, FALSE),
        Command("zremrangebylex", <<"a">>, <<>>, <<"m", "m">>, TRUE),
        Command("zremrangebylex", <<"a">>, <<>>, <<"m", "n">>, TRUE)}

RemoveValues ==
  {Absent,
   HashValue({[field |-> "f", value |-> StringScalar("x")]}),
   HashValue({[field |-> "f", value |-> StringScalar("x")],
              [field |-> "g", value |-> IntScalar(1)]}),
   SortedSetValue({MemberParam("m", 1)}),
   SortedSetValue({MemberParam("m", 1), MemberParam("n", 1)}),
   SortedSetValue({MemberParam("m", 1), MemberParam("n", 2)})}

InitRemove == store \in [Keys -> RemoveValues] /\ InitClients

NextRemove ==
  \/ \E c \in RemoveCommands : Start(1, c)
  \/ Cancel(1)
  \/ RunDeferred(1)
  \/ handleHDEL(1)
  \/ handleZREM(1)
  \/ handleZPOP(1)
  \/ handleZMPOP(1)
  \/ handleZREMRANGEBYSCORE(1)
  \/ handleZREMRANGEBYRANK(1)
  \/ handleZREMRANGEBYLEX(1)

SpecRemove == InitRemove /\ [][NextRemove]_vars


\* ------------------------------ HINCRBY on one field, one client, in sequence
HIncrCommands ==
  {Command("hincrby", <<k>>, <<>>, <<"f", d>>, TRUE) :
     k \in Keys, d \in {"1", "2", "-1", "1.5"}}

HIncrValues == {Absent, HashValue({}), HashValue({[field |-> "g", value |-> StringScalar("x")]})}

\* The sum of the increments of the commands that replied a number, by key.
Increments(p) ==
  IF cmd[p] = NoCommand THEN [k \in Keys |-> 0]
  ELSE IF reply[p].kind = "int"
  THEN [trace[p].live EXCEPT ![cmd[p].keys[1]] = @ + Atoi(cmd[p].strs[2])]
  ELSE trace[p].live

InitHIncr == store \in [Keys -> HIncrValues] /\ InitClients

NextHIncr ==
  \/ \E c \in HIncrCommands : Dispatch(1, c, MaxZCmds, [NoTrace EXCEPT !.live = Increments(1)])
  \/ Cancel(1)
  \/ RunDeferred(1)
  \/ handleHINCRBY(1)

SpecHIncr == InitHIncr /\ [][NextHIncr]_vars


\* ------------------------------- pushes and pops, one client, in sequence
PushCommands ==
  {Command(n, <<k>>, <<>>, <<e>>, TRUE) :
     n \in {"lpush", "rpush"}, k \in Keys, e \in {"y", "1", "02", "1.50"}}
  \cup {Command(n, <<k>>, <<>>, <<"x">>, TRUE) : n \in {"lpushx", "rpushx"}, k \in Keys}
  \cup {Command(n, <<"a">>, <<>>, <<"x", "y">>, TRUE) : n \in {"lpush", "rpush"}}
  \cup {Command(n, <<k>>, <<>>, <<>>, TRUE) : n \in {"lpop", "rpop"}, k \in Keys}

PushValues == {Absent, ListValue(<<>>), ListValue(<<"x">>), ListValue(<<"y", "x">>),
               StringValue(<<"s">>)}

\* The command client p has run last, with its reply and the keyspace it
\* was dispatched in.
LastCommand(p) == [cmd |-> cmd[p], reply |-> reply[p], before |-> trace[p].before]

InitPush == store \in [Keys -> PushValues] /\ InitClients

NextPush ==
  \/ \E c \in PushCommands : Dispatch(1, c, MaxCmds, [NoTrace EXCEPT !.live = LastCommand(1)])
  \/ Cancel(1)
  \/ RunDeferred(1)
  \/ handleLPush(1)
  \/ handleRPush(1)
  \/ handlePop(1)

SpecPush == InitPush /\ [][NextPush]_vars


\* ---------------------------------------------------------- string module
\* A string value is the sequence of its characters (one byte each). The
\* value argument of SETRANGE is carried in strs as its characters.
IsString(v) == v.kind = "string"
BulkReply(chars) == [kind |-> "bulk", n |-> Len(chars), v |-> chars]

\* The variant in which the new string is inserted at the offset.
setrangeRunes_inserted(strRunes, offset, newStr, i, len) ==
  SubSeq(strRunes, 1, offset) \o newStr \o SubSeq(strRunes, offset + 1, Len(strRunes))

\* The loop of SETRANGE over newStr[i..]: while offset is inside the
\* original string (of length len) the rune at offset is replaced; once it
\* is past the end the remainder of newStr is appended.
RECURSIVE setrangeRunes(_, _, _, _, _)
setrangeRunes(strRunes, offset, newStr, i, len) ==
  IF i > Len(newStr) THEN strRunes
  ELSE IF offset < len
  THEN setrangeRunes([strRunes EXCEPT ![offset + 1] = newStr[i]], offset + 1, newStr, i + 1, len)
  ELSE strRunes \o SubSeq(newStr, i, Len(newStr))

\* SETRANGE key offset value
handleSetRange(p) ==
  LET key == cmd[p].keys[1]
      offset == cmd[p].ints[1]
      newStr == cmd[p].strs
  IN
  /\ Running(p, {"setrange"})
  /\ \/ /\ pc[p] = "start"
        /\ IF ~cmd[p].intsOk
           THEN Return(p, Err("offset must be an integer"), trace[p], store, wlock, rlock)
           ELSE IF ~KeyExists(key)
           THEN Step(p, "create", loc[p], SawAbsent(trace[p]), store, wlock, rlock)
           ELSE Step(p, "lock", loc[p], trace[p], store, wlock, rlock)
     \/ /\ pc[p] = "create"
        /\ IF CreateFails(p, key)
           THEN Return(p, Err("key create"), Created(p, key), store, wlock, rlock)
           ELSE Step(p, "setnew", loc[p], Created(p, key), CreatedStore(p, key),
                     CreateKeyAndLock(p, key), rlock)
     \/ /\ pc[p] = "setnew"
        /\ Step(p, "unlock", loc[p], Wrote(p, key), SetValue(key, StringValue(newStr)),
                wlock, rlock)
     \/ /\ pc[p] = "unlock"
        /\ Return(p, IntReply(Len(newStr)), Unlocked(p, key), store, KeyUnlock(p, key), rlock)
     \/ /\ pc[p] = "lock"
        /\ KeyLockReady(p, key)
        /\ IF LockFails(p, key)
           THEN Return(p, Err("key lock"), Locked(p, key), store, wlock, rlock)
           ELSE Step(p, "get", Defer(p, "KeyUnlock", key), Locked(p, key), store,
                     KeyLock(p, key), rlock)
     \/ /\ pc[p] = "get"
        /\ LET v == GetValue(key)
               str == v.seq
               result == IF offset >= Len(str) THEN str \o newStr
                         ELSE IF offset < 0 THEN newStr \o str
                         ELSE setrangeRunes(str, offset, newStr, 1, Len(str))
           IN IF ~IsString(v)
              THEN Return(p, Err("value is not a string"), KindChecked(Got(p, key), p, key),
                          store, wlock, rlock)
              ELSE Return(p, IntReply(Len(result)), [Got(p, key) EXCEPT !.wrote = TRUE],
                          SetValue(key, StringValue(result)), wlock, rlock)

\* The slice bounds SUBSTR computes for a value of length len: low and high
\* of value[low:high], and whether the slice is returned reversed.
substrBounds(start, end, len) ==
  LET start1 == IF start < 0 THEN len - AbsInt(start) ELSE start
      end1 == IF end < 0 THEN len - AbsInt(end) ELSE end
      end2 == IF end1 >= 0 /\ end1 >= start1 THEN end1 + 1 ELSE end1
      end3 == IF end2 > len THEN len ELSE end2
  IN IF start1 > end3 THEN [low |-> end3, high |-> start1, reversed |-> TRUE]
     ELSE [low |-> start1, high |-> end3, reversed |-> FALSE]

\* SUBSTR key start end / GETRANGE key start end
handleSubStr(p) ==
  LET key == cmd[p].keys[1] IN
  /\ Running(p, {"substr", "getrange"})
  /\ \/ /\ pc[p] = "start"
        /\ IF ~cmd[p].intsOk
           THEN Return(p, Err("start and end indices must be integers"), trace[p],
                       store, wlock, rlock)
           ELSE IF ~KeyExists(key)
           THEN Return(p, Err("key does not exist"), trace[p], store, wlock, rlock)
           ELSE Step(p, "rlock", loc[p], trace[p], store, wlock, rlock)
     \/ /\ pc[p] = "rlock"
        /\ KeyRLockReady(p, key)
        /\ IF LockFails(p, key)
           THEN Return(p, Err("key lock"), Locked(p, key), store, wlock, rlock)
           ELSE Step(p, "get", Defer(p, "KeyRUnlock", key), Locked(p, key), store,
                     wlock, KeyRLock(p, key))
     \/ /\ pc[p] = "get"
        /\ LET v == GetValue(key)
               value == v.seq
               b == substrBounds(cmd[p].ints[1], cmd[p].ints[2], Len(value))
               str == Slice(value, b.low, b.high)
           IN IF ~IsString(v)
              THEN Return(p, Err("value is not a string"), KindChecked(Got(p, key), p, key),
                          store, wlock, rlock)
              ELSE IF b.low < 0 \/ b.high > Len(value)
              THEN Return(p, Panic, Got(p, key), store, wlock, rlock)
              ELSE Return(p, BulkReply(IF b.reversed THEN Reverse(str) ELSE str), Got(p, key),
                          store, wlock, rlock)

Offsets == {-1, 0, 1, 2, 3}
SubStrIndexes == {-4, -1, 0, 1, 3}
StringCommands ==
  {Command("setrange", <<k>>, <<o>>, v, TRUE) :
     k \in Keys, o \in Offsets, v \in {<<"p">>, <<"p", "q">>}}
  \cup {Command("setrange", <<"a">>, <<0>>, <<"p">>, FALSE)}
  \cup {Command(n, <<"a">>, <<i, j>>, <<>>, TRUE) :
          n \in {"substr", "getrange"}, i \in SubStrIndexes, j \in SubStrIndexes}
  \cup {Command("substr", <<"b">>, <<0, 0>>, <<>>, ok) : ok \in BOOLEAN}

StringValues == {Absent, StringValue(<<"s">>), StringValue(<<"s", "t", "u">>),
                 ListValue(<<"x">>)}

InitString == store \in [Keys -> StringValues] /\ InitClients

NextString ==
  \/ \E c \in StringCommands : Start(1, c)
  \/ Cancel(1)
  \/ RunDeferred(1)
  \/ handleSetRange(1)
  \/ handleSubStr(1)

SpecString == InitString /\ [][NextString]_vars


\* ------------------------------------------------------------ key expiry
\* An entry with its expires_at instant: the empty set when the entry has no
\* expiry, else the set of the one instant. Only the specification of the
\* EXPIRE family keeps entries in this shape.
Entry(value, expires_at) ==
  [kind |-> value.kind, seq |-> value.seq, set |-> value.set, hash |-> value.hash,
   expires_at |-> expires_at]

EXPIREOptions == [NX : BOOLEAN, XX : BOOLEAN, LT : BOOLEAN, GT : BOOLEAN]

\* The option tokens the typed API appends to the command: the switch takes
\* the first flag that is set, in the order NX, XX, LT, GT.
expireFlags(options) ==
  IF options.NX THEN <<"NX">>
  ELSE IF options.XX THEN <<"XX">>
  ELSE IF options.LT THEN <<"LT">>
  ELSE IF options.GT THEN <<"GT">>
  ELSE <<>>

ExpireNames == {"expire", "pexpire", "expireat", "pexpireat"}

\* EchoVault.EXPIRE, PEXPIRE, EXPIREAT and PEXPIREAT: the command is built
\* from the key, the number and the options and handed to handleCommand. The
\* history keeps the options of the call.
EXPIRE(p) ==
  \E name \in ExpireNames, key \in Keys, n \in {1, 2}, options \in EXPIREOptions :
    Dispatch(p, OptCommand(name, <<key>>, expireFlags(options), <<n>>, <<>>, TRUE), MaxCmds,
             [NoTrace EXCEPT !.live = [api |-> TRUE, options |-> options]])

\* The same commands sent by a client as a command array, with up to two
\* option tokens.
RawExpire(p) ==
  \E name \in {"expire", "expireat"}, opts \in {<<"NX", "XX">>, <<"LT", "GT">>, <<"GT">>} :
    Dispatch(p, OptCommand(name, <<"a">>, opts, <<1>>, <<>>, TRUE), MaxCmds,
             [NoTrace EXCEPT !.live = [api |-> FALSE,
                                       options |-> [NX |-> FALSE, XX |-> FALSE,
                                                    LT |-> FALSE, GT |-> FALSE]]])

\* Whether the flags of the command admit the new instant at over the
\* current expiry.
expireApplies(c, current, at) ==
  /\ HasOption(c, "NX") => current = {}
  /\ HasOption(c, "XX") => current # {}
  /\ HasOption(c, "LT") => \A t \in current : at < t
  /\ HasOption(c, "GT") => current # {} /\ \A t \in current : at > t

\* EXPIRE key n [NX|XX|LT|GT] and its three variants. The instant is kept
\* in the unit of the command, with the clock at 0.
handleExpire(p) ==
  LET key == cmd[p].keys[1]
      at == cmd[p].ints[1]
  IN
  /\ Running(p, ExpireNames)
  /\ \/ /\ pc[p] = "start"
        /\ IF \/ HasOption(cmd[p], "NX") /\ HasOption(cmd[p], "XX")
              \/ HasOption(cmd[p], "LT") /\ HasOption(cmd[p], "GT")
           THEN Return(p, Err("option conflict"), trace[p], store, wlock, rlock)
           ELSE IF ~KeyExists(key)
           THEN Return(p, IntReply(0), SawAbsent(trace[p]), store, wlock, rlock)
           ELSE Step(p, "lock", loc[p], trace[p], store, wlock, rlock)
     \/ /\ pc[p] = "lock"
        /\ KeyLockReady(p, key)
        /\ IF LockFails(p, key)
           THEN Return(p, Err("key lock"), Locked(p, key), store, wlock, rlock)
           ELSE Step(p, "set", Defer(p, "KeyUnlock", key), Locked(p, key), store,
                     KeyLock(p, key), rlock)
     \/ /\ pc[p] = "set"
        /\ IF expireApplies(cmd[p], store[key].expires_at, at)
           THEN Return(p, IntReply(1), Wrote(p, key),
                       SetValue(key, Entry(store[key], {at})), wlock, rlock)
           ELSE Return(p, IntReply(0), trace[p], store, wlock, rlock)

ExpireEntries ==
  {Entry(Absent, {})} \cup {Entry(StringValue(<<"s">>), e) : e \in {{}, {1}, {2}}}

InitExpire == store \in [Keys -> ExpireEntries] /\ InitClients

NextExpire ==
  \/ EXPIRE(1)
  \/ RawExpire(1)
  \/ Cancel(1)
  \/ RunDeferred(1)
  \/ handleExpire(1)

SpecExpire == InitExpire /\ [][NextExpire]_vars


\* ------------------------------------------- ZMPOP over several keys
ZMPopCommands ==
  {OptCommand("zmpop", ks, <<pol>>, <<n>>, <<>>, TRUE) :
     ks \in {<<"a">>, <<"a", "b">>, <<"b", "a">>}, pol \in {"min", "max"}, n \in {1, 2, 3}}
  \cup {OptCommand("zmpop", <<"a", "b">>, <<>>, <<>>, <<>>, TRUE),
        OptCommand("zmpop", <<"a">>, <<"min">>, <<0>>, <<>>, TRUE),
        OptCommand("zmpop", <<"a">>, <<"min">>, <<1>>, <<>>, FALSE)}

ZMPopValues ==
  {Absent, ListValue(<<"x">>), SortedSetValue({}),
   SortedSetValue({MemberParam("m", 1)}),
   SortedSetValue({MemberParam("m", 1), MemberParam("n", 2)}),
   SortedSetValue({MemberParam("m", 2), MemberParam("n", 1), MemberParam("o", 3)})}

InitZMPop == store \in [Keys -> ZMPopValues] /\ InitClients

NextZMPop ==
  \/ \E c \in ZMPopCommands : Dispatch(1, c, MaxZCmds, NoTrace)
  \/ Cancel(1)
  \/ handleZMPOP(1)

SpecZMPop == InitZMPop /\ [][NextZMPop]_vars


\* ------------------------------------- ZADD from the tokens of the command
\* Whether AdaptType reads the token as a number, or it is -inf or +inf.
IsScore(s) == IsNumber(s) \/ s \in {"-inf", "+inf"}

\* membersStartIndex: the index in cmd of the first token that is a valid
\* score, 0 when there is none. tokens are cmd[2:]; the command name and
\* the keys of the model are no scores.
zaddStartIndex(tokens) ==
  IF \E i \in 1..Len(tokens) : IsScore(tokens[i])
  THEN 1 + CHOOSE i \in 1..Len(tokens) :
             IsScore(tokens[i]) /\ \A j \in 1..(i - 1) : ~IsScore(tokens[j])
  ELSE 0

\* The loop over the score/member pairs: a score that AdaptType reads as an
\* int or a float64 gives a member, and so does the string -inf or +inf; any
\* other string gives none, and the loop goes on. A float is kept in halves.
RECURSIVE zaddPairs(_)
zaddPairs(pairs) ==
  IF Len(pairs) < 2 THEN <<>>
  ELSE LET score == AdaptType(pairs[1])
           member == IF score.type # "string" THEN <<MemberParam(pairs[2], score.num)>>
                     ELSE IF pairs[1] = "-inf" THEN <<MemberParam(pairs[2], NegInf)>>
                     ELSE IF pairs[1] = "+inf" THEN <<MemberParam(pairs[2], PosInf)>>
                     ELSE <<>>
       IN member \o zaddPairs(SubSeq(pairs, 3, Len(pairs)))

\* The command handleZADD works from, for the tokens after the key: the
\* options are the tokens before membersStartIndex, the members those of the
\* pairs from there on.
zaddCommand(key, tokens) ==
  LET membersStartIndex == zaddStartIndex(tokens)
      pairs == SubSeq(tokens, membersStartIndex - 1, Len(tokens))
      ok == membersStartIndex >= 2 /\ Len(pairs) % 2 = 0
      members == IF ok THEN zaddPairs(pairs) ELSE <<>>
  IN OptCommand("zadd", <<key>>,
                IF ok THEN SubSeq(tokens, 1, membersStartIndex - 2) ELSE <<>>,
                [i \in 1..Len(members) |-> members[i].score],
                [i \in 1..Len(members) |-> members[i].value], ok)

ZAddTokens ==
  {<<"1", "m">>, <<"2", "m", "1", "n">>, <<"+inf", "n">>, <<"xx", "2", "m">>,
   <<"1", "m", "abc", "n">>, <<"1", "m", "abc", "n", "2", "o">>,
   <<"abc", "m", "1", "n">>, <<"abc", "m">>, <<"1", "m", "n">>, <<"-inf", "o">>}

\* A client sends ZADD with the tokens; the history keeps them.
ZAddSend(p) ==
  \E key \in Keys, tokens \in ZAddTokens :
    Dispatch(p, zaddCommand(key, tokens), MaxCmds, [NoTrace EXCEPT !.live = tokens])

InitZAddTokens ==
  /\ store \in [Keys -> {Absent, SortedSetValue({MemberParam("m", 1)}), ListValue(<<"x">>)}]
  /\ InitClients

NextZAddTokens ==
  \/ ZAddSend(1)
  \/ Cancel(1)
  \/ RunDeferred(1)
  \/ handleZADD(1)

SpecZAddTokens == InitZAddTokens /\ [][NextZAddTokens]_vars


\* ------------------------------------------------ LMOVE run by one client
MoveCommands ==
  {Command("lmove", <<k1, k2>>, <<>>, <<f, t>>, TRUE) :
     k1 \in Keys, k2 \in Keys, f \in Wheres, t \in Wheres}
  \cup {Command("lmove", <<"a", "b">>, <<>>, <<"up", "left">>, TRUE)}

InitMove ==
  /\ store \in [Keys -> {Absent, ListValue(<<>>), ListValue(<<"x">>), ListValue(<<"x", "y">>),
                         ListValue(<<"y", "x", "y">>), StringValue(<<"s">>)}]
  /\ InitClients

NextMove ==
  \/ \E c \in MoveCommands : Start(1, c)
  \/ Cancel(1)
  \/ handleLMove(1)

SpecMove == InitMove /\ [][NextMove]_vars

\* ================================================================ claims
ListNames == {"llen", "lindex", "lrange", "lset", "ltrim", "lrem", "lmove",
              "lpush", "lpushx", "rpush", "rpushx", "lpop", "rpop"}

\* C3: a handler whose lock requests all succeeded never calls GetValue on a
\* key without holding the key's read or write lock, and never calls
\* SetValue on a key without holding the key's write lock.
C3_LockedAccess ==
  \A p \in Procs :
    ~trace[p].lockFailed => ~trace[p].getNoLock /\ ~trace[p].setNoLock

\* C4: a list command that has returned holds no lock on any key.
C4_ReleasedOnReturn ==
  \A p \in Procs :
    (cmd[p].name \in ListNames /\ pc[p] = "done") => HeldLocks(p) = {}

\* C6: LMOVE s s never waits for the write lock of s while holding it:
\* its second lock request is always granted or refused.
C6_NoSelfWait ==
  \A p \in Procs :
    (cmd[p].name = "lmove" /\ pc[p] = "lock2" /\ cmd[p].keys[1] = cmd[p].keys[2]
       /\ wlock[cmd[p].keys[1]] = p)
      => KeyLockReady(p, cmd[p].keys[2])

\* C7: a list command one of whose lock requests failed calls SetValue on
\* no key afterwards, and replies with an error once it has returned.
C7_FailedLockStops ==
  \A p \in Procs :
    (cmd[p].name \in ListNames /\ trace[p].lockFailed)
      => /\ ~trace[p].wroteAfterFail
         /\ pc[p] = "done" => reply[p].kind = "err"

\* C8: a write command whose lock requests all succeeded makes its kind
\* check on a value it read while holding the key's lock.
C8_KindCheckUnderLock ==
  \A p \in Procs :
    ~trace[p].lockFailed => trace[p].kindCheck # "unheld"

\* C1: no two LMOVE commands each hold the write lock of one list while
\* waiting for the write lock the other one holds.
C1_NoLockCycle ==
  \A p, q \in Procs :
    ~ /\ p # q
      /\ cmd[p].name = "lmove" /\ pc[p] = "lock2"
      /\ cmd[q].name = "lmove" /\ pc[q] = "lock2"
      /\ wlock[cmd[p].keys[1]] = p /\ wlock[cmd[p].keys[2]] = q
      /\ wlock[cmd[q].keys[1]] = q /\ wlock[cmd[q].keys[2]] = p

\* The value at k holds what command c writes: the members of a ZADD, the
\* fields of an HSET.
HoldsEffect(c, k) ==
  IF c.name = "zadd" THEN \A i \in 1..Len(c.strs) : Contains(store[k].set, c.strs[i])
  ELSE \A e \in hsetEntries({}, c.strs) : HasField(store[k].hash, e.field)

\* Two clients whose commands of the same kind both found the same key
\* absent, and have both returned.
BothFoundAbsent(p, q) ==
  /\ p # q /\ pc[p] = "done" /\ pc[q] = "done"
  /\ trace[p].absent /\ trace[q].absent
  /\ cmd[p].keys[1] = cmd[q].keys[1]
  /\ (cmd[p].name = "zadd") = (cmd[q].name = "zadd")

\* C2: when two create-on-absent writes of the same kind both found their
\* key absent, neither replies with an error and the value at the key holds
\* what both of them wrote.
C2_BothCreatesApplied ==
  \A p, q \in Procs :
    BothFoundAbsent(p, q)
      => /\ reply[p].kind # "err" /\ reply[q].kind # "err"
         /\ HoldsEffect(cmd[p], cmd[p].keys[1]) /\ HoldsEffect(cmd[q], cmd[q].keys[1])

\* Two clients whose commands name different keys have both returned.
DisjointDone(p, q) ==
  /\ p # q /\ pc[p] = "done" /\ pc[q] = "done"
  /\ cmd[p].keys[1] # cmd[q].keys[1]

\* C9: when two clients run commands on different keys, in any interleaving
\* of their steps, each command's reply and the value left at its key are
\* those of the command run alone on the value its key had when it was
\* dispatched.
C9_DisjointKeysSerial ==
  \A p, q \in Procs :
    DisjointDone(p, q)
      => LET k == cmd[p].keys[1]
             r == Serial(cmd[p], trace[p].before[k])
         IN reply[p] = r.reply /\ store[k] = r.value

\* Both commands ran on different keys and both changed the value at theirs.
C9_Witness ==
  \E p, q \in Procs :
    /\ DisjointDone(p, q)
    /\ trace[p].wrote /\ trace[q].wrote
    /\ store[cmd[p].keys[1]] # trace[p].before[cmd[p].keys[1]]
    /\ store[cmd[q].keys[1]] # trace[q].before[cmd[q].keys[1]]
    /\ cmd[p].name = "zadd" /\ cmd[q].name # "zadd"

\* C5: a ZDIFFSTORE or ZINTER command that has returned holds no read lock
\* on any key.
C5_NoReadLockAfterReturn ==
  \A p \in Procs :
    (cmd[p].name \in {"zdiffstore", "zinter"} /\ pc[p] = "done")
      => \A k \in Keys : rlock[k][p] = 0

C11_WholeRangeInOrder ==
  \A p \in Procs :
    (/\ pc[p] = "done"
     /\ cmd[p].name = "zrange"
     /\ cmd[p].opts = <<>>
     /\ cmd[p].ints = <<NegInf, PosInf>>
     /\ reply[p].kind = "array")
      => reply[p] = MembersReply(store[cmd[p].keys[1]].set, FALSE)

\* The records a range command with LIMIT offset count is to return from
\* the members in iteration order: those within the bounds, from position
\* offset on, count of them at most (all of them for a negative count).
LimitWindow(c, members) ==
  LET within == SelectSeq(members, LAMBDA m : zrangeInBounds(c, m))
      last == IF zrangeCount(c) < 0 \/ zrangeOffset(c) + zrangeCount(c) > Len(within)
              THEN Len(within) ELSE zrangeOffset(c) + zrangeCount(c)
  IN SubSeq(within, zrangeOffset(c) + 1, last)

\* C12: ZRANGE and ZRANGESTORE with LIMIT offset count return exactly the
\* records at positions offset .. offset+count-1 of the members within the
\* range bounds, in iteration order (members of equal score in whichever
\* order the sort left them); a negative count returns every record from
\* position offset on.
C12_LimitIsWindow ==
  \A p \in Procs :
    (/\ pc[p] = "done"
     /\ cmd[p].name \in {"zrange", "zrangestore"}
     /\ zrangeLimit(cmd[p])
     /\ reply[p].kind = IF cmd[p].name = "zrange" THEN "array" ELSE "int"
     /\ IsSortedSet(trace[p].before[cmd[p].keys[Len(cmd[p].keys)]]))
      => LET S == trace[p].before[cmd[p].keys[Len(cmd[p].keys)]].set IN
         \E members \in IF zrangePolicy(cmd[p]) = "byscore"
                         THEN SortByScore(S, zrangeReverse(cmd[p]))
                         ELSE SortByLex(S, zrangeReverse(cmd[p])) :
           LET window == LimitWindow(cmd[p], members) IN
           IF cmd[p].name = "zrange"
           THEN reply[p] = RecordsReply(window, zrangeWithscores(cmd[p]))
           ELSE /\ reply[p].n = Len(window)
                /\ store[cmd[p].keys[1]] =
                     SortedSetValue({window[i] : i \in 1..Len(window)})

\* C13: ZRANK k m returns the number of members that precede m in the order
\* (score ascending, then value ascending), ZREVRANK k m the number that
\* follow it; both return nil when k or m is absent.
C13_RankIsPosition ==
  \A p \in Procs :
    (/\ pc[p] = "done"
     /\ cmd[p].name \in {"zrank", "zrevrank"}
     /\ reply[p].kind \in {"array", "nil"})
      => LET S == store[cmd[p].keys[1]].set
             member == cmd[p].strs[1]
         IN IF ~Contains(S, member) THEN reply[p] = NilReply
            ELSE /\ reply[p].kind = "array"
                 /\ reply[p].v[1] =
                      Cardinality({o \in S : IF cmd[p].name = "zrevrank"
                                             THEN Before(Get(S, member), o)
                                             ELSE Before(o, Get(S, member))})

\* The values of the members of the sorted set at key k of keyspace s.
ValuesAt(s, k) == {m.value : m \in s[k].set}

\* C14: ZADD with the XX option only updates the scores of members that
\* already exist: it adds no member, so the cardinality is unchanged, and on
\* a key that does not exist it creates no member.
C14_XXAddsNoMember ==
  \A p \in Procs :
    (/\ pc[p] = "done"
     /\ cmd[p].name = "zadd"
     /\ HasOption(cmd[p], "xx") /\ ~HasOption(cmd[p], "nx")
     /\ reply[p].kind # "err")
      => ValuesAt(store, cmd[p].keys[1]) = ValuesAt(trace[p].before, cmd[p].keys[1])

\* C15: ZADD given both NX and XX, or GT or LT together with NX, in
\* whichever order, is rejected with an error and leaves the sorted set
\* unchanged.
C15_ConflictingOptionsRejected ==
  \A p \in Procs :
    (/\ pc[p] = "done"
     /\ cmd[p].name = "zadd"
     /\ cmd[p].intsOk
     /\ HasOption(cmd[p], "nx")
     /\ HasOption(cmd[p], "xx") \/ HasOption(cmd[p], "gt") \/ HasOption(cmd[p], "lt"))
      => /\ reply[p].kind = "err"
         /\ store[cmd[p].keys[1]] = trace[p].before[cmd[p].keys[1]]

\* C16: ZADD with the INCR option replies with the member's new score
\* instead of a count, when the key already holds a sorted set and when the
\* command creates the key.
C16_IncrRepliesNewScore ==
  \A p \in Procs :
    (/\ pc[p] = "done"
     /\ cmd[p].name = "zadd"
     /\ cmd[p].opts = <<"incr">>
     /\ reply[p].kind # "err")
      => reply[p] = ScoreReply(GetScore(store[cmd[p].keys[1]].set, cmd[p].strs[1]))

\* C17: ZINCRBY k d m leaves m in the set with its former score plus d (d
\* when m was not in the set or k did not exist) and replies that score.
C17_IncrbyAddsToScore ==
  \A p \in Procs :
    (/\ pc[p] = "done"
     /\ cmd[p].name = "zincrby"
     /\ reply[p].kind # "err")
      => LET k == cmd[p].keys[1]
             m == cmd[p].strs[1]
             s == GetScore(trace[p].before[k].set, m)
         IN /\ Contains(store[k].set, m)
            /\ GetScore(store[k].set, m) = s + cmd[p].ints[1]
            /\ reply[p] = ScoreReply(s + cmd[p].ints[1])

LexNames == {"zlexcount", "zremrangebylex"}
SameScore(S) == \A m1, m2 \in S : m1.score = m2.score

\* C18: ZLEXCOUNT returns 0 whenever the members of the set do not all have
\* the same score, whatever the cardinality and wherever the differing score
\* sits; ZREMRANGEBYLEX removes nothing in that case.
C18_MixedScoresCountZero ==
  \A p \in Procs :
    (/\ pc[p] = "done"
     /\ cmd[p].name \in LexNames
     /\ reply[p].kind = "int"
     /\ IsSortedSet(trace[p].before[cmd[p].keys[1]])
     /\ ~SameScore(trace[p].before[cmd[p].keys[1]].set))
      => /\ reply[p].n = 0
         /\ store[cmd[p].keys[1]] = trace[p].before[cmd[p].keys[1]]

\* A lexicographic bound: "[x" includes x, "(x" excludes it, "-" lies below
\* and "+" above every member.
LexForms == {"-", "+", "[m", "(m", "[n", "(n", "[o", "(o"}
LexInclusive(bound) == bound \in {"[m", "[n", "[o"}
LexValue(bound) ==
  IF bound \in {"[m", "(m"} THEN "m" ELSE IF bound \in {"[n", "(n"} THEN "n" ELSE "o"
AboveMin(v, bound) ==
  IF bound = "-" THEN TRUE
  ELSE IF bound = "+" THEN FALSE
  ELSE IF LexInclusive(bound) THEN CompareLex(v, LexValue(bound)) >= 0
  ELSE CompareLex(v, LexValue(bound)) > 0
BelowMax(v, bound) ==
  IF bound = "+" THEN TRUE
  ELSE IF bound = "-" THEN FALSE
  ELSE IF LexInclusive(bound) THEN CompareLex(v, LexValue(bound)) <= 0
  ELSE CompareLex(v, LexValue(bound)) < 0

\* C19: on a set whose members share one score, ZLEXCOUNT counts and
\* ZREMRANGEBYLEX removes exactly the members between the two bounds, "[x"
\* including x, "(x" excluding it, "-" below and "+" above every member.
C19_LexBoundsHonoured ==
  \A p \in Procs :
    (/\ pc[p] = "done"
     /\ cmd[p].name \in LexNames
     /\ reply[p].kind = "int"
     /\ cmd[p].strs[1] \in LexForms /\ cmd[p].strs[2] \in LexForms
     /\ IsSortedSet(trace[p].before[cmd[p].keys[1]])
     /\ SameScore(trace[p].before[cmd[p].keys[1]].set))
      => LET S == trace[p].before[cmd[p].keys[1]].set
             between == {m \in S : /\ AboveMin(m.value, cmd[p].strs[1])
                                   /\ BelowMax(m.value, cmd[p].strs[2])}
         IN /\ reply[p].n = Cardinality(between)
            /\ store[cmd[p].keys[1]].set =
                 IF cmd[p].name = "zremrangebylex" THEN S \ between ELSE S

\* The inputs of a ZUNIONSTORE command as the client gave them, with the
\* sorted sets they held when the command was dispatched (none for a key
\* that did not exist) and the weight given at the position of each.
UnionInputs(c, before) ==
  [i \in 1..(Len(c.keys) - 1) |->
     SortedSetParam(before[c.keys[i + 1]].set,
                    IF c.ints = <<>> THEN 1 ELSE c.ints[i])]

\* C20: after ZUNIONSTORE out k1..kn WEIGHTS w1..wn AGGREGATE f, out holds
\* exactly the values of at least one existing input, each with f over the
\* inputs that hold it of w_i times its score in k_i, and the reply is the
\* cardinality of out.
C20_UnionStored ==
  \A p \in Procs :
    (/\ pc[p] = "done"
     /\ cmd[p].name = "zunionstore"
     /\ reply[p].kind = "int"
     /\ cmd[p].ints = <<>> \/ Len(cmd[p].ints) = Len(cmd[p].keys) - 1)
      => LET union == Union(cmd[p].opts[1], UnionInputs(cmd[p], trace[p].before))
         IN /\ store[cmd[p].keys[1]] = SortedSetValue(union)
            /\ reply[p].n = Cardinality(union)

\* C21: after ZINTERSTORE out ... has returned n, out holds exactly n
\* values: those present in every input key, each with the aggregate of its
\* weighted scores; when an input key is absent or the intersection is
\* empty, n is 0 and out holds no member.
C21_IntersectionStored ==
  \A p \in Procs :
    (/\ pc[p] = "done"
     /\ cmd[p].name = "zinterstore"
     /\ reply[p].kind = "int"
     /\ cmd[p].ints = <<>> \/ Len(cmd[p].ints) = Len(cmd[p].keys) - 1)
      => LET intersect == Intersect(cmd[p].opts[1], UnionInputs(cmd[p], trace[p].before))
         IN /\ reply[p].n = Cardinality(intersect)
            /\ store[cmd[p].keys[1]].set = intersect
            /\ intersect # {} => IsSortedSet(store[cmd[p].keys[1]])

\* The key and the value it had when the command of client p was
\* dispatched, for a command that removes from one container.
RemovedKey(p) == WrittenKey(cmd[p], trace[p].before)
RemovedFrom(p) == trace[p].before[RemovedKey(p)]

\* Client p has run a removing command on a non-empty hash or sorted set
\* and no field, no member of that container is left at the key.
RemovedLast(p) ==
  /\ pc[p] = "done"
  /\ cmd[p].name \in {"hdel", "zrem", "zpopmin", "zpopmax", "zmpop", "zremrangebyscore",
                      "zremrangebyrank", "zremrangebylex"}
  /\ reply[p].kind \notin {"err", "panic", "none"}
  /\ RemovedFrom(p).hash # {} \/ RemovedFrom(p).set # {}
  /\ \A e \in RemovedFrom(p).hash : ~HasField(store[RemovedKey(p)].hash, e.field)
  /\ \A m \in RemovedFrom(p).set : ~Contains(store[RemovedKey(p)].set, m.value)

\* C22: when HDEL removes the last field of a hash, or ZREM, ZPOPMIN,
\* ZPOPMAX, ZMPOP or ZREMRANGEBY* removes the last member of a sorted set,
\* the key still exists and holds an empty container of the same kind.
C22_EmptiedContainerKept ==
  \A p \in Procs :
    RemovedLast(p) =>
      /\ KeyExists(RemovedKey(p))
      /\ store[RemovedKey(p)] = IF IsHash(RemovedFrom(p)) THEN HashValue({})
                                ELSE SortedSetValue({})

C22_Witness ==
  /\ RemovedLast(1)
  /\ cmd[1].name = "hdel"
  /\ Cardinality(RemovedFrom(1).hash) = 2
  /\ store[RemovedKey(1)] = HashValue({})

\* The same for the last members of a sorted set, popped by ZMPOP.
C22_WitnessSortedSet ==
  /\ RemovedLast(1)
  /\ cmd[1].name = "zmpop"
  /\ Cardinality(RemovedFrom(1).set) = 2
  /\ store[RemovedKey(1)] = SortedSetValue({})

\* The text an element of a reply carries.
ElementText(e) == IF e.kind = "int" THEN ToString(e.n) ELSE e.s

\* What HGET k f returns in the current keyspace.
HGetNow(k, f) == hgetElements(store[k].hash, <<f>>)[1]

\* C23: after HSET k f v, HGET k f returns v; HSETNX k f v2 leaves a field
\* that is present as it is and sets a field that is absent (in an existing
\* hash or at an absent key) to v2; HGET returns the value the hash holds.
C23_SetThenGet ==
  \A p \in Procs :
    (pc[p] = "done" /\ reply[p].kind \in {"int", "array"} /\ Len(cmd[p].strs) > 0)
      => LET k == cmd[p].keys[1]
             f == cmd[p].strs[1]
             before == trace[p].before[k].hash
         IN /\ (cmd[p].name = "hset" /\ Len(cmd[p].strs) = 2)
                 => /\ IsHash(store[k])
                    /\ ElementText(HGetNow(k, f)) = cmd[p].strs[2]
            /\ cmd[p].name = "hsetnx"
                 => /\ IsHash(store[k])
                    /\ \A e \in before : e \in store[k].hash
                    /\ \A e \in store[k].hash : e \in before \/ e.field = f
                    /\ ~HasField(before, f) => ElementText(HGetNow(k, f)) = cmd[p].strs[2]
            /\ cmd[p].name = "hget"
                 => reply[p].v = hgetElements(store[k].hash, cmd[p].strs)

\* C24: starting from an absent field, at an absent key or in an existing
\* hash, after any sequence of HINCRBY k f d1 .. HINCRBY k f dn the value
\* of the field and the last reply are d1 + .. + dn.
C24_IncrementsSumUp ==
  \A p \in Procs :
    (pc[p] = "done" /\ cmd[p].name = "hincrby" /\ reply[p].kind = "int")
      => LET k == cmd[p].keys[1]
             sum == Increments(p)[k]
         IN /\ reply[p].n = sum
            /\ HasField(store[k].hash, "f")
            /\ HashGet(store[k].hash, "f") = IntScalar(sum)
            /\ \A e \in trace[p].before[k].hash : e.field # "f" => e \in store[k].hash

C24_Witness ==
  /\ pc[1] = "done"
  /\ cmd[1].name = "hincrby"
  /\ served[1] = 3
  /\ reply[1] = IntReply(2)
  /\ Increments(1)[cmd[1].keys[1]] = 2
  /\ trace[1].live[cmd[1].keys[1]] = 3
  /\ HashGet(store[cmd[1].keys[1]].hash, "f") = IntScalar(2)

\* Client p has run HINCRBY or HINCRBYFLOAT on a field that held a string
\* when the command was dispatched.
IncrementedString(p) ==
  /\ pc[p] = "done"
  /\ cmd[p].name \in {"hincrby", "hincrbyfloat"}
  /\ IsHash(trace[p].before[cmd[p].keys[1]])
  /\ HasField(trace[p].before[cmd[p].keys[1]].hash, cmd[p].strs[1])
  /\ HashGet(trace[p].before[cmd[p].keys[1]].hash, cmd[p].strs[1]).type = "string"

\* C25: HINCRBY and HINCRBYFLOAT on a field whose value is not a number
\* return an error and leave every field of the hash as it was.
C25_NonNumberRejected ==
  \A p \in Procs :
    IncrementedString(p)
      => /\ reply[p].kind = "err"
         /\ store[cmd[p].keys[1]] = trace[p].before[cmd[p].keys[1]]

C25_Witness ==
  /\ IncrementedString(1)
  /\ cmd[1].name = "hincrbyfloat"
  /\ cmd[1].strs[2] = "1.5"
  /\ ~cancelled[1]
  /\ reply[1] = Err("value at field is not a number")
  /\ Cardinality(store["a"].hash) = 3

\* The fields of the hash at k, and the fields a reply of HRANDFIELD
\* without WITHVALUES names, in the order of the reply.
FieldsOf(h) == {e.field : e \in h}
RepliedFields(rp) == [i \in 1..Len(rp.v) |-> rp.v[i].s]

\* C26: HRANDFIELD k c on a hash of n fields returns c pairwise distinct
\* fields of the hash when 0 < c < n, every field exactly once when c >= n,
\* and -c fields of the hash, repeats allowed, when c < 0; the hash is not
\* changed.
C26_RandomFields ==
  \A p \in Procs :
    (/\ pc[p] = "done"
     /\ cmd[p].name = "hrandfield"
     /\ cmd[p].opts = <<>> /\ cmd[p].ints # <<>> /\ cmd[p].intsOk
     /\ ~cancelled[p]
     /\ IsHash(trace[p].before[cmd[p].keys[1]]))
      => LET hash == trace[p].before[cmd[p].keys[1]].hash
             c == cmd[p].ints[1]
             n == Cardinality(hash)
             fields == RepliedFields(reply[p])
         IN /\ store = trace[p].before
            /\ reply[p].kind = "array"
            /\ \A i \in 1..Len(fields) : fields[i] \in FieldsOf(hash)
            /\ (0 < c /\ c < n)
                 => /\ Len(fields) = c
                    /\ \A i, j \in 1..Len(fields) : i # j => fields[i] # fields[j]
            /\ c >= n
                 => /\ Len(fields) = n
                    /\ \A f \in FieldsOf(hash) : Cardinality({i \in 1..n : fields[i] = f}) = 1
            /\ c < 0 => Len(fields) = 0 - c

\* Client p has run LPUSH k x and then LPOP k, or RPUSH k x and then
\* RPOP k, on a key that was absent or held a list, and both have replied.
PushedThenPopped(p) ==
  /\ pc[p] = "done"
  /\ served[p] >= 2
  /\ \/ cmd[p].name = "lpop" /\ trace[p].live.cmd.name = "lpush"
     \/ cmd[p].name = "rpop" /\ trace[p].live.cmd.name = "rpush"
  /\ trace[p].live.cmd.keys = cmd[p].keys
  /\ Len(trace[p].live.cmd.strs) = 1
  /\ trace[p].live.reply = Ok
  /\ trace[p].live.before[cmd[p].keys[1]].kind \in {"absent", "list"}

\* C27: for every list at k, and for an absent key, LPUSH k x followed by
\* LPOP k returns x and leaves the list with the elements it had, in their
\* order; the same for RPUSH k x followed by RPOP k.
C27_PushThenPop ==
  \A p \in Procs :
    PushedThenPopped(p)
      => /\ reply[p] = StrReply(trace[p].live.cmd.strs[1])
         /\ IsList(store[cmd[p].keys[1]])
         /\ store[cmd[p].keys[1]].seq = trace[p].live.before[cmd[p].keys[1]].seq

\* A step after which client p has returned OK from LPUSH or RPUSH on a
\* key that was absent leaves a list of the pushed elements at the key; a
\* step that takes LPUSHX or RPUSHX off an absent key is the return of an
\* error that changes no key and no lock, with no deferred unlock to run.
PushOnAbsentKey(p) ==
  /\ (/\ pc'[p] = "done"
      /\ cmd'[p].name \in {"lpush", "rpush"}
      /\ trace'[p].before[cmd'[p].keys[1]] = Absent
      /\ reply'[p] = Ok)
       => store'[cmd'[p].keys[1]] = ListValue(adaptElems(cmd'[p].strs))
  /\ (/\ cmd[p].name \in {"lpushx", "rpushx"}
      /\ pc[p] = "start"
      /\ ~KeyExists(cmd[p].keys[1])
      /\ pc'[p] # "start")
       => /\ pc'[p] = "done"
          /\ reply'[p].kind = "err"
          /\ UNCHANGED <<store, wlock, rlock>>

\* C28: LPUSH and RPUSH on an absent key create the key holding a list of
\* the pushed elements; LPUSHX and RPUSHX on an absent key return an error,
\* create no key, and acquire and release no lock.
C28_CreateOrReject == [][\A p \in Procs : PushOnAbsentKey(p)]_vars

C28_Witness ==
  /\ pc[1] = "done"
  /\ cmd[1].name = "rpushx"
  /\ trace[1].before[cmd[1].keys[1]] = Absent
  /\ reply[1].kind = "err"
  /\ store = trace[1].before
  /\ \A k \in Keys : wlock[k] = NoProc
  /\ served[1] = 2
  /\ trace[1].live.cmd.name = "lpush"
  /\ trace[1].live.before[trace[1].live.cmd.keys[1]] = Absent
  /\ trace[1].live.reply = Ok

\* The indices of the occurrences of v that LREM with the given count is to
\* remove, and the list without the elements at the indices R.
RemovedOccurrences(list, count, v) ==
  LET occ == {i \in 1..Len(list) : list[i] = v} IN
  IF count = 0 THEN occ
  ELSE IF count > 0 THEN {i \in occ : Cardinality({j \in occ : j < i}) < count}
  ELSE {i \in occ : Cardinality({j \in occ : j > i}) < 0 - count}

RECURSIVE Without(_, _, _)
Without(list, R, i) ==
  IF i > Len(list) THEN <<>>
  ELSE (IF i \in R THEN <<>> ELSE <<list[i]>>) \o Without(list, R, i + 1)

\* C29: LREM k count v on a list with m occurrences of v removes the first
\* min(count, m) occurrences from the head when count > 0, the last
\* min(-count, m) from the tail when count < 0 and all of them when
\* count = 0; the remaining elements keep their order.
C29_LRemRemovesOccurrences ==
  \A p \in Procs :
    (/\ pc[p] = "done"
     /\ cmd[p].name = "lrem"
     /\ cmd[p].intsOk
     /\ IsList(trace[p].before[cmd[p].keys[1]]))
      => LET list == trace[p].before[cmd[p].keys[1]].seq
             R == RemovedOccurrences(list, cmd[p].ints[1], cmd[p].strs[1])
         IN /\ reply[p] = Ok
            /\ store[cmd[p].keys[1]] = ListValue(Without(list, R, 1))

\* C30: after LTRIM k start end with 0 <= start <= end < length the list is
\* the elements formerly at start .. end, both included, in their order;
\* with end = -1 it is the elements from start to the tail; an index
\* outside the list is an error that leaves the list as it was.
C30_LTrimKeepsRange ==
  \A p \in Procs :
    (/\ pc[p] = "done"
     /\ cmd[p].name = "ltrim"
     /\ cmd[p].intsOk
     /\ IsList(trace[p].before[cmd[p].keys[1]]))
      => LET k == cmd[p].keys[1]
             list == trace[p].before[k].seq
             start == cmd[p].ints[1]
             end == cmd[p].ints[2]
         IN /\ (0 <= start /\ start <= end /\ end < Len(list))
                 => reply[p] = Ok /\ store[k] = ListValue(SubSeq(list, start + 1, end + 1))
            /\ (0 <= start /\ start < Len(list) /\ end = -1)
                 => reply[p] = Ok /\ store[k] = ListValue(SubSeq(list, start + 1, Len(list)))
            /\ (start < 0 \/ start >= Len(list) \/ end >= Len(list))
                 => reply[p].kind = "err" /\ store[k] = trace[p].before[k]

\* The element of list an index of a command addresses: index i >= 0 is
\* element i from the head, index i < 0 element Len(list) + i.
Addressed(list, i) == IF i < 0 THEN Len(list) + i + 1 ELSE i + 1
InList(list, i) == 0 - Len(list) <= i /\ i < Len(list)

\* C31: for LINDEX, LSET and LRANGE on a list of length n an index i with
\* -n <= i < 0 addresses element n + i, and an index outside [-n, n-1] is
\* an error that leaves the list unchanged.
C31_IndexFromTail ==
  \A p \in Procs :
    (/\ pc[p] = "done"
     /\ cmd[p].name \in {"lindex", "lset", "lrange"}
     /\ cmd[p].intsOk
     /\ IsList(trace[p].before[cmd[p].keys[1]]))
      => LET k == cmd[p].keys[1]
             list == trace[p].before[k].seq
             i == cmd[p].ints[1]
         IN /\ cmd[p].name = "lindex"
                 => /\ store[k] = trace[p].before[k]
                    /\ IF InList(list, i) THEN reply[p] = StrReply(list[Addressed(list, i)])
                       ELSE reply[p].kind = "err"
            /\ cmd[p].name = "lset"
                 => IF InList(list, i)
                    THEN /\ reply[p] = Ok
                         /\ store[k] = ListValue([list EXCEPT ![Addressed(list, i)] =
                                                    adaptElems(cmd[p].strs)[1]])
                    ELSE reply[p].kind = "err" /\ store[k] = trace[p].before[k]
            /\ cmd[p].name = "lrange"
                 => /\ store[k] = trace[p].before[k]
                    /\ (~InList(list, i) \/ ~InList(list, cmd[p].ints[2]))
                         => reply[p].kind = "err"
                    /\ (InList(list, i) /\ InList(list, cmd[p].ints[2]) /\ reply[p].kind = "array")
                         => reply[p].v[1] = list[Addressed(list, i)]

C38_SubStrInBounds ==
  \A p \in Procs :
    (/\ pc[p] = "done"
     /\ cmd[p].name \in {"substr", "getrange"}
     /\ cmd[p].intsOk
     /\ ~cancelled[p]
     /\ IsString(trace[p].before[cmd[p].keys[1]]))
      => LET n == Len(trace[p].before[cmd[p].keys[1]].seq)
             b == substrBounds(cmd[p].ints[1], cmd[p].ints[2], n)
         IN /\ reply[p].kind \in {"bulk", "err"}
            /\ 0 <= b.low /\ b.low <= b.high /\ b.high <= n

\* C33: a call of EXPIRE, PEXPIRE, EXPIREAT or PEXPIREAT through the typed
\* API with both NX and XX set, or with both LT and GT set, results in an
\* error and leaves the expiry of the key as it was.
C33_ConflictingFlagsRejected ==
  \A p \in Procs :
    (/\ pc[p] = "done"
     /\ cmd[p].name \in ExpireNames
     /\ trace[p].live.api
     /\ \/ trace[p].live.options.NX /\ trace[p].live.options.XX
        \/ trace[p].live.options.LT /\ trace[p].live.options.GT)
      => /\ reply[p].kind = "err"
         /\ store[cmd[p].keys[1]].expires_at = trace[p].before[cmd[p].keys[1]].expires_at

\* C34: LMOVE src dst from to on a non-empty list src and an existing list
\* dst, src and dst different keys, removes one element from src (the head
\* when from is LEFT, the tail when RIGHT) and inserts it into dst (at the
\* head when to is LEFT, at the tail when RIGHT); the other elements keep
\* their order and the sum of the two lengths is unchanged.
C34_LMoveMovesOne ==
  \A p \in Procs :
    (/\ pc[p] = "done"
     /\ cmd[p].name = "lmove"
     /\ cmd[p].keys[1] # cmd[p].keys[2]
     /\ cmd[p].strs[1] \in Wheres /\ cmd[p].strs[2] \in Wheres
     /\ IsList(trace[p].before[cmd[p].keys[1]])
     /\ trace[p].before[cmd[p].keys[1]].seq # <<>>
     /\ IsList(trace[p].before[cmd[p].keys[2]]))
      => LET src == cmd[p].keys[1]
             dst == cmd[p].keys[2]
             source == trace[p].before[src].seq
             destination == trace[p].before[dst].seq
             elem == IF cmd[p].strs[1] = "left" THEN Head(source) ELSE source[Len(source)]
         IN /\ reply[p] = Ok
            /\ store[src] = ListValue(IF cmd[p].strs[1] = "left" THEN Tail(source)
                                      ELSE SubSeq(source, 1, Len(source) - 1))
            /\ store[dst] = ListValue(IF cmd[p].strs[2] = "left" THEN <<elem>> \o destination
                                      ELSE destination \o <<elem>>)
            /\ Len(store[src].seq) + Len(store[dst].seq) = Len(source) + Len(destination)

C34_Witness ==
  /\ pc[1] = "done"
  /\ cmd[1] = Command("lmove", <<"a", "b">>, <<>>, <<"right", "left">>, TRUE)
  /\ trace[1].before["a"] = ListValue(<<"y", "x", "y">>)
  /\ trace[1].before["b"] = ListValue(<<"x", "y">>)
  /\ store["a"] = ListValue(<<"y", "x">>)
  /\ store["b"] = ListValue(<<"y", "x", "y">>)

\* The keys of a ZMPOP that held a non-empty sorted set when it was
\* dispatched, as positions in its argument order.
Qualifying(p) ==
  {i \in 1..Len(cmd[p].keys) :
     /\ IsSortedSet(trace[p].before[cmd[p].keys[i]])
     /\ trace[p].before[cmd[p].keys[i]].set # {}}
RepliedMembers(rp) == {rp.v[i] : i \in 1..Len(rp.v)}

\* C35: ZMPOP pops from exactly one key, the first in argument order that
\* exists and holds a non-empty sorted set: it removes min(count,
\* cardinality) members with the lowest (MIN) or highest (MAX) scores and
\* returns them, and leaves every other key unchanged; when no key
\* qualifies it returns an empty array and changes nothing.
C35_PopsFirstNonEmpty ==
  \A p \in Procs :
    (/\ pc[p] = "done"
     /\ cmd[p].name = "zmpop"
     /\ reply[p].kind # "err"
     /\ ~cancelled[p])
      => LET policy == IF cmd[p].opts = <<>> THEN "min" ELSE cmd[p].opts[1]
             count == IF cmd[p].ints = <<>> THEN 1 ELSE cmd[p].ints[1]
         IN IF Qualifying(p) = {}
            THEN reply[p] = ArrayReply(<<>>) /\ store = trace[p].before
            ELSE LET i == CHOOSE i \in Qualifying(p) : \A j \in Qualifying(p) : i <= j
                     k == cmd[p].keys[i]
                     was == trace[p].before[k].set
                     removed == was \ store[k].set
                 IN /\ IsSortedSet(store[k]) /\ store[k].set \subseteq was
                    /\ Cardinality(removed) = IF count < Cardinality(was) THEN count
                                              ELSE Cardinality(was)
                    /\ \A m \in removed : \A o \in store[k].set :
                         IF policy = "max" THEN m.score >= o.score ELSE m.score <= o.score
                    /\ reply[p].kind = "array" /\ reply[p].n = Cardinality(removed)
                    /\ RepliedMembers(reply[p]) = removed
                    /\ \A other \in Keys \ {k} : store[other] = trace[p].before[other]

C35_Witness ==
  /\ pc[1] = "done"
  /\ cmd[1] = OptCommand("zmpop", <<"b", "a">>, <<"max">>, <<2>>, <<>>, TRUE)
  /\ trace[1].before["b"] = SortedSetValue({})
  /\ trace[1].before["a"] = SortedSetValue({MemberParam("m", 2), MemberParam("n", 1),
                                            MemberParam("o", 3)})
  /\ store["a"] = SortedSetValue({MemberParam("n", 1)})
  /\ store["b"] = SortedSetValue({})
  /\ reply[1].n = 2

\* C36: no handler calls KeyUnlock or KeyRUnlock on a key whose lock the
\* command does not hold at that moment; stated for the commands none of
\* whose lock requests failed.
C36_UnlockOnlyHeld ==
  \A p \in Procs : ~trace[p].lockFailed => ~trace[p].badUnlock

\* C37: a command run on a key that exists and holds an empty list (LPOP,
\* RPOP, LMOVE from it) returns a reply or an error value; it never fails
\* with an out-of-range access.
C37_EmptyListAnswered ==
  \A p \in Procs :
    (/\ pc[p] = "done"
     /\ cmd[p].name \in {"lpop", "rpop", "lmove"}
     /\ trace[p].before[cmd[p].keys[1]] = ListValue(<<>>))
      => reply[p] # Panic

\* The score/member tokens of a ZADD: the tokens after the leading options.
ZAddOptionWords == {"nx", "xx", "gt", "lt", "ch", "incr"}
RECURSIVE PairTokens(_)
PairTokens(tokens) ==
  IF tokens # <<>> /\ Head(tokens) \in ZAddOptionWords THEN PairTokens(Tail(tokens))
  ELSE tokens

\* C39: ZADD with a score token that is neither a number nor -inf or +inf,
\* in any pair position, returns an error and adds or updates no member.
C39_InvalidScoreRejected ==
  \A p \in Procs :
    (/\ pc[p] = "done"
     /\ cmd[p].name = "zadd"
     /\ \E i \in 1..Len(PairTokens(trace[p].live)) :
          i % 2 = 1 /\ ~IsScore(PairTokens(trace[p].live)[i]))
      => /\ reply[p].kind = "err"
         /\ store = trace[p].before
====
